---------------------------- MODULE Spec2Model ----------------------------
(***************************************************************************)
(* Client-side conversation session lifecycle of ChatBotMusicSpotify:      *)
(* the useChatSession hook (src/src/hooks/useChatSession.ts), the BFF chat *)
(* service it calls (src/src/services/chatService.ts) and the local        *)
(* conversation store behind useConversationStorage.                       *)
(*                                                                         *)
(* Texts are sequences of one-character strings so that trim, split and    *)
(* substring are computed as the code computes them.  Fixed literals that  *)
(* the code only compares or displays are kept as one-token sequences.     *)
(***************************************************************************)
EXTENDS Integers, Sequences, FiniteSets, TLC

----------------------------------------------------------------------------
(* Bounds of the model *)

\* asynchronous operations (sends and loads) started in one run
MaxAsync == 2
\* last value of the clock (it starts at 4, after the stored conversations)
MaxTime == 5
\* values of the random suffix of a generated session id
MaxRand == 1
\* longest run of letters in the inputs of generateSessionTitle
MaxPrefix == 52

----------------------------------------------------------------------------
(* Program constants *)

TitleMax == 50
TitleCut == 47
ChunkLimit == 50
PreviewLen == 100
StatusLow == 200
StatusHigh == 300

----------------------------------------------------------------------------
(* Text helpers: String.prototype.trim, split, substring *)

IsSpace(c) == c = " "

IsTerminator(c) == c \in {".", "!", "?"}

NotSpace(c) == ~IsSpace(c)

\* index of the first element satisfying P, 0 when there is none
FirstIndex(s, P(_)) ==
  IF \E k \in 1..Len(s) : P(s[k])
  THEN CHOOSE k \in 1..Len(s) : P(s[k]) /\ \A j \in 1..(k - 1) : ~P(s[j])
  ELSE 0

\* index of the last element satisfying P, 0 when there is none
LastIndex(s, P(_)) ==
  IF \E k \in 1..Len(s) : P(s[k])
  THEN CHOOSE k \in 1..Len(s) : P(s[k]) /\ \A j \in (k + 1)..Len(s) : ~P(s[j])
  ELSE 0

TrimStart(s) ==
  LET k == FirstIndex(s, NotSpace)
  IN  IF k = 0 THEN <<>> ELSE SubSeq(s, k, Len(s))

TrimEnd(s) == SubSeq(s, 1, LastIndex(s, NotSpace))

Trim(s) == TrimEnd(TrimStart(s))

\* JS truthiness of `s && s.trim()`
NonBlank(s) == Trim(s) # <<>>

\* s.substring(0, n)
Substring0(s, n) == SubSeq(s, 1, IF n < Len(s) THEN n ELSE Len(s))

\* s.split(/[.!?]+/)[0]: the text before the first terminator
FirstSentence(s) ==
  LET k == FirstIndex(s, IsTerminator)
  IN  IF k = 0 THEN s ELSE SubSeq(s, 1, k - 1)

Ellipsis == <<".", ".", ".">>

\* variant: truncates at TitleMax instead of TitleCut before adding the dots
generateSessionTitle_Mut(firstMessage) ==
  LET cleaned == Trim(firstMessage)
      sentence == FirstSentence(cleaned)
  IN  IF Len(cleaned) <= TitleMax THEN cleaned
      ELSE IF sentence # <<>> /\ Len(sentence) <= TitleMax THEN Trim(sentence)
      ELSE Substring0(cleaned, TitleMax) \o Ellipsis

generateSessionTitle(firstMessage) ==
  LET cleaned == Trim(firstMessage)
      sentence == FirstSentence(cleaned)
  IN  IF Len(cleaned) <= TitleMax THEN cleaned
      ELSE IF sentence # <<>> /\ Len(sentence) <= TitleMax THEN Trim(sentence)
      ELSE Substring0(cleaned, TitleCut) \o Ellipsis

----------------------------------------------------------------------------
(* splitIntoNaturalChunks: text.split(/([.!?]\s+)/) and the regrouping loop *)

\* number of whitespace characters s starts with
LeadingSpaces(s) ==
  LET k == FirstIndex(s, NotSpace)
  IN  IF k = 0 THEN Len(s) ELSE k - 1

\* index of the first terminator that is followed by whitespace, 0 when none
FirstSeparator(s) ==
  IF \E k \in 1..(Len(s) - 1) : IsTerminator(s[k]) /\ IsSpace(s[k + 1])
  THEN CHOOSE k \in 1..(Len(s) - 1) :
         /\ IsTerminator(s[k]) /\ IsSpace(s[k + 1])
         /\ \A j \in 1..(k - 1) : ~(IsTerminator(s[j]) /\ IsSpace(s[j + 1]))
  ELSE 0

\* the array returned by split with a capturing group: text, separator, text, ...
RECURSIVE SplitSentences(_)
SplitSentences(text) ==
  LET k == FirstSeparator(text)
      n == LeadingSpaces(SubSeq(text, k + 1, Len(text)))
  IN  IF k = 0 THEN <<text>>
      ELSE <<SubSeq(text, 1, k - 1), SubSeq(text, k, k + n)>>
             \o SplitSentences(SubSeq(text, k + n + 1, Len(text)))

\* sentences[i].match(/[.!?]\s+/)
MatchesSeparator(seg) ==
  \E k \in 1..(Len(seg) - 1) : IsTerminator(seg[k]) /\ IsSpace(seg[k + 1])

RECURSIVE RegroupChunks(_, _, _)
RegroupChunks(sentences, currentChunk, chunks) ==
  IF sentences = <<>>
  THEN IF NonBlank(currentChunk) THEN Append(chunks, currentChunk) ELSE chunks
  ELSE LET cc == currentChunk \o Head(sentences)
       IN  IF (MatchesSeparator(Head(sentences)) \/ Len(cc) > ChunkLimit) /\ NonBlank(cc)
           THEN RegroupChunks(Tail(sentences), <<>>, Append(chunks, cc))
           ELSE RegroupChunks(Tail(sentences), cc, chunks)

\* variant: every chunk is pushed without its trailing white space
splitIntoNaturalChunks_Mut(text) ==
  LET chunks == RegroupChunks(SplitSentences(text), <<>>, <<>>)
  IN  IF Len(chunks) > 0 THEN [k \in 1..Len(chunks) |-> TrimEnd(chunks[k])] ELSE <<text>>

splitIntoNaturalChunks(text) ==
  LET chunks == RegroupChunks(SplitSentences(text), <<>>, <<>>)
  IN  IF Len(chunks) > 0 THEN chunks ELSE <<text>>

----------------------------------------------------------------------------
(* Session ids, errors and fixed literals *)

\* null / undefined / '' session id
NoSid == <<"none", 0, 0>>

\* Date.now().toString() + '-' + Math.random().toString(36).substr(2, 9)
generateSessionId(t, r) == <<"gen", t, r>>

\* an id assigned by the BFF
ServerSid(n) == <<"srv", n, 0>>

\* null error state
NoError == ""

\* 'Nueva Conversacion' (sessionTitle default)
DefaultTitle ==
  <<"N", "u", "e", "v", "a", " ", "C", "o", "n", "v", "e", "r", "s", "a",
    "c", "i", "o", "n">>

\* the welcome message seeded by initChat
WelcomeText == <<"Hola! Soy Skynet AI, tu asistente musical de Spotify.">>

\* placeholder text set by the onError callback
ApologyText == <<"Lo siento, encontre un error. Por favor, intentalo de nuevo.">>

\* fullResponse when the reply carries no usable text
FallbackAnswer ==
  <<"L", "o", " ", "s", "i", "e", "n", "t", "o", ",", " ", "n", "o", " ",
    "p", "u", "d", "e", " ", "g", "e", "n", "e", "r", "a", "r", " ", "u",
    "n", "a", " ", "r", "e", "s", "p", "u", "e", "s", "t", "a", " ", "a",
    "p", "r", "o", "p", "i", "a", "d", "a", ".", " ", "?", "P", "o", "d",
    "r", "i", "a", "s", " ", "r", "e", "f", "o", "r", "m", "u", "l", "a",
    "r", " ", "t", "u", " ", "p", "r", "e", "g", "u", "n", "t", "a", "?">>

----------------------------------------------------------------------------
(* BFFChatService: post, sendMessage and the reply handling of              *)
(* sendMessageStreamSimulated.  A reply is what fetch delivers:             *)
(*   net  = "throw" (transport / JSON failure), "notok" (response.ok false) *)
(*          or "ok"                                                         *)
(*   hasData = the parsed body is a (truthy) object                         *)
(*   data = the body fields the client may look at                          *)
(***************************************************************************)

Body(hasStatus, statusCode, isSuccess, err, nat, resp, ctx, sid, clar, friendly) ==
  [hasStatus |-> hasStatus, statusCode |-> statusCode, isSuccess |-> isSuccess,
   error |-> err, naturalResponse |-> nat, response |-> resp,
   contextualizedQuestions |-> ctx, sessionId |-> sid,
   clarificationMessage |-> clar, userFriendly |-> friendly]

EmptyBody == Body(FALSE, 0, FALSE, "", <<>>, <<>>, <<>>, NoSid, <<>>, <<>>)

\* a || b on strings
\* variant: the default is never taken
OrElse_Mut(a, b) == a

OrElse(a, b) == IF a # "" THEN a ELSE b

\* a || b on session ids
SidOr(a, b) == IF a # NoSid THEN a ELSE b

post(reply) ==
  IF reply.net = "throw"
  THEN [success |-> FALSE, hasData |-> FALSE, data |-> EmptyBody, error |-> "Network error"]
  ELSE IF reply.net = "notok"
  THEN [success |-> FALSE, hasData |-> FALSE, data |-> EmptyBody,
        error |-> IF reply.hasData THEN OrElse(reply.data.error, "HTTP error! status")
                  ELSE "Network error"]
  ELSE [success |-> TRUE, hasData |-> reply.hasData,
        data |-> IF reply.hasData THEN reply.data ELSE EmptyBody, error |-> ""]

\* statusCode < 200 || statusCode >= 300 (false for an absent statusCode)
StatusOutOfRange(d) ==
  d.hasStatus /\ (d.statusCode < StatusLow \/ d.statusCode >= StatusHigh)

\* variant: the isSuccess flag of the body decides
isHttpSuccess_Mut(d) ==
  d.hasStatus /\ d.isSuccess

\* statusCode >= 200 && statusCode < 300 (false for an absent statusCode)
isHttpSuccess(d) ==
  d.hasStatus /\ d.statusCode >= StatusLow /\ d.statusCode < StatusHigh

sendMessage(reply, sessionId, freshSid) ==
  LET response == post(reply)
  IN  IF response.success /\ response.hasData
      THEN IF StatusOutOfRange(response.data)
           THEN [success |-> FALSE, hasData |-> FALSE, data |-> EmptyBody,
                 error |-> OrElse(response.data.error, "Backend returned status")]
           ELSE IF response.data.sessionId = NoSid
           THEN [response EXCEPT !.data.sessionId = SidOr(sessionId, freshSid)]
           ELSE response
      ELSE response

\* variant: the raw response is preferred to the natural-language answer
SelectAnswer_Mut(d) ==
  IF NonBlank(d.response) THEN d.response
  ELSE IF NonBlank(d.naturalResponse) THEN d.naturalResponse
  ELSE IF NonBlank(d.contextualizedQuestions) THEN d.contextualizedQuestions
  ELSE FallbackAnswer

\* naturalResponse > response > contextualizedQuestions > fixed sentence
SelectAnswer(d) ==
  IF NonBlank(d.naturalResponse) THEN d.naturalResponse
  ELSE IF NonBlank(d.response) THEN d.response
  ELSE IF NonBlank(d.contextualizedQuestions) THEN d.contextualizedQuestions
  ELSE FallbackAnswer

\* what sendMessageStreamSimulated does with the reply before it starts to
\* reveal chunks: either an Error for onError or the text and session id
StreamOutcome(reply, sessionId, freshSid) ==
  LET response == sendMessage(reply, sessionId, freshSid)
      fail(msg) == [ok |-> FALSE, error |-> msg, fullResponse |-> <<>>, sessionId |-> NoSid]
  IN  IF ~response.success
      THEN fail(OrElse(response.error, "Failed to get response from chat service"))
      ELSE IF ~response.hasData
      THEN fail("No data received from chat service")
      ELSE IF ~isHttpSuccess(response.data)
      THEN fail(OrElse(response.data.error, "HTTP status: Request failed"))
      ELSE [ok |-> TRUE, error |-> "",
            fullResponse |-> SelectAnswer(response.data),
            sessionId |-> SidOr(response.data.sessionId, SidOr(sessionId, freshSid))]

----------------------------------------------------------------------------
(* State of the session hook and of what it talks to *)

VARIABLES
  st,              \* React state of useChatSession: messages, isLoading, error,
                   \* currentSessionId, sessionTitle (all queued updates applied)
  view,            \* the state of the latest render, which handler closures read
  hasInitialized,  \* the one-shot ref guarding the mount effect
  reqs,            \* exchanges started by handleSendMessage, in order
  loads,           \* loadConversation calls, in order
  store,           \* the local conversation store (IndexedDB 'conversations')
  now,             \* Date.now()
  probe,           \* argument and result of a pure function under test
  termsState,      \* React state of useExcludedTerms: terms, isEnabled, isLoading, error
  termsDb,         \* the user's record in the IndexedDB store 'excludedTerms'
  termsOp,         \* the last call of the excluded-terms hook and what it returned
  authState,       \* React state of useAuth: user, isLoading, error
  authUser,        \* Firebase's auth.currentUser
  authOp           \* the last event handler that called useAuth and how it ended

termsVars == <<termsState, termsDb, termsOp>>

authVars == <<authState, authUser, authOp>>

sideVars == <<termsVars, authVars>>

vars == <<st, view, hasInitialized, reqs, loads, store, now, probe, sideVars>>

hookVars == <<st, view, hasInitialized, reqs, loads, store, now, sideVars>>

\* the excluded-terms hook before its first load, nothing stored
NoConfig == [userId |-> "none"]

NoOp == [fn |-> "none", arg |-> <<>>, result |-> FALSE, failed |-> FALSE, n |-> 0]

TermsIdle ==
  /\ termsState = [terms |-> <<>>, isEnabled |-> TRUE, isLoading |-> FALSE, error |-> ""]
  /\ termsDb = NoConfig
  /\ termsOp = NoOp

NoUser == "null"

NoAuthOp == [fn |-> "none", uncaught |-> FALSE]

\* useAuth before Firebase has reported the user
AuthIdle ==
  /\ authState = [user |-> NoUser, isLoading |-> TRUE, error |-> ""]
  /\ authUser = NoUser
  /\ authOp = NoAuthOp

SideIdle == TermsIdle /\ AuthIdle

NoProbe == [fn |-> "none", arg |-> <<>>, done |-> FALSE, result |-> <<>>]

----------------------------------------------------------------------------
(* Messages and sessions *)

Message(id, sender, text, timestamp, sessionId) ==
  [id |-> id, sender |-> sender, text |-> text, timestamp |-> timestamp,
   sessionId |-> sessionId]

\* prevMessages.map(msg => msg.id === id ? { ...msg, text } : msg)
SetText(messages, id, text) ==
  [k \in 1..Len(messages) |->
     IF messages[k].id = id THEN [messages[k] EXCEPT !.text = text] ELSE messages[k]]

\* messagesWithPlaceholder.map(msg => msg.id === id ? {...msg, text, sessionId} : msg)
SetTextAndSession(messages, id, text, sessionId) ==
  [k \in 1..Len(messages) |->
     IF messages[k].id = id
     THEN [messages[k] EXCEPT !.text = text, !.sessionId = sessionId]
     ELSE messages[k]]

ChatSession(id, sessionId, title, createdAt, updatedAt, messages) ==
  [id |-> id, sessionId |-> sessionId, title |-> title, createdAt |-> createdAt,
   updatedAt |-> updatedAt, messages |-> messages]

NoSession == ChatSession(NoSid, NoSid, <<>>, 0, 0, <<>>)

\* a || b on timestamps
TimeOr(a, b) == IF a # 0 THEN a ELSE b

----------------------------------------------------------------------------
(* ConversationStorageService: records keyed by conversation id *)

\* text.slice(0, 100) of the last message
\* variant: the preview is cut from the first message
lastMessagePreview_Mut(messages) ==
  IF Len(messages) > 0 THEN Substring0(messages[1].text, PreviewLen) ELSE <<>>

lastMessagePreview(messages) ==
  IF Len(messages) > 0 THEN Substring0(messages[Len(messages)].text, PreviewLen) ELSE <<>>

StoredConversation(conversation) ==
  [id |-> conversation.id, title |-> conversation.title,
   createdAt |-> conversation.createdAt,
   updatedAt |-> TimeOr(conversation.updatedAt, now),
   messages |-> conversation.messages,
   messageCount |-> Len(conversation.messages),
   lastMessagePreview |-> lastMessagePreview(conversation.messages),
   starred |-> FALSE]

\* store.put(record): insert or replace by key
Put(records, rec) == {x \in records : x.id # rec.id} \cup {rec}

\* store.get(id), as a set of zero or one records
Get(records, id) == {x \in records : x.id = id}

\* useConversationStorage.saveConversation: the write may fail (caught, null)
saveConversation(records, conversation, succeeds) ==
  IF succeeds /\ conversation.id # NoSid
  THEN Put(records, StoredConversation(conversation))
  ELSE records

----------------------------------------------------------------------------
(* What the environment can send *)

\* a conversation kept from an earlier visit
OldSid == generateSessionId(1, 1)

OldMessages ==
  << Message(<<1, "ai-init">>, "ai", WelcomeText, 1, OldSid),
     Message(<<2, "user">>, "user", <<"r", "o", "c", "k">>, 2, OldSid),
     Message(<<3, "ai">>, "ai", <<"O", "k", ".">>, 3, OldSid) >>

OldConversation ==
  [id |-> OldSid, title |-> <<"r", "o", "c", "k">>, createdAt |-> 1, updatedAt |-> 3,
   messages |-> OldMessages, messageCount |-> 3,
   lastMessagePreview |-> <<"O", "k", ".">>, starred |-> FALSE]

\* texts the user may submit: empty, blank, and a question
InputTexts ==
  { <<>>, <<" ">>, <<" ", "J", "a", "z", "z", "?", " ">> }

Reply(net, hasData, data) == [net |-> net, hasData |-> hasData, data |-> data]

\* replies of the question endpoint the hook is exercised with: a transport
\* failure, a body without statusCode, and two answers (one with a session id)
GatewayReplies ==
  { Reply("throw", FALSE, EmptyBody),
    Reply("ok", TRUE, [EmptyBody EXCEPT !.naturalResponse = <<"H", "i", ".">>]),
    Reply("ok", TRUE, [EmptyBody EXCEPT !.hasStatus = TRUE, !.statusCode = 200,
                                        !.naturalResponse = <<"H", "i", ".", " ", "O", "k">>]),
    Reply("ok", TRUE, [EmptyBody EXCEPT !.hasStatus = TRUE, !.statusCode = 200,
                                        !.response = <<"R">>,
                                        !.sessionId = ServerSid(1)]) }

\* a conversation of the remote store; the BFF may omit id and sessionId
RemoteConversation(id) ==
  ChatSession(id, NoSid, <<"p", "o", "p">>, 1, 2,
              << Message(<<1, "user">>, "user", <<"p", "o", "p">>, 1, id),
                 Message(<<2, "ai">>, "ai", <<"Y", "e", "s">>, 2, id) >>)

RemoteSid == ServerSid(2)

ApiResponse(success, hasData, data, err) ==
  [success |-> success, hasData |-> hasData, data |-> data, error |-> err]

\* results of historyService.getConversation(id)
RemoteResponses(id) ==
  { ApiResponse(FALSE, FALSE, NoSession, "HTTP error! status"),
    ApiResponse(TRUE, FALSE, NoSession, ""),
    ApiResponse(TRUE, TRUE, RemoteConversation(NoSid), "") }
  \cup (IF id = RemoteSid
        THEN {ApiResponse(TRUE, TRUE, RemoteConversation(id), "")} ELSE {})

\* ids the history lists offer
LoadableIds == {OldSid, RemoteSid}

----------------------------------------------------------------------------
(* useChatSession *)

HookState(messages, isLoading, error, currentSessionId, sessionTitle) ==
  [messages |-> messages, isLoading |-> isLoading, error |-> error,
   currentSessionId |-> currentSessionId, sessionTitle |-> sessionTitle]

\* variant: the finally block that lowers the loading flag is missing
initChat_Mut(t, r) ==
  LET newSessionId == generateSessionId(t, r)
      initialMessage == Message(<<t, "ai-init">>, "ai", WelcomeText, t, newSessionId)
  IN  HookState(<<initialMessage>>, TRUE, NoError, newSessionId, DefaultTitle)

\* the state initChat leaves: loading flag raised and lowered in one block
initChat(t, r) ==
  LET newSessionId == generateSessionId(t, r)
      initialMessage == Message(<<t, "ai-init">>, "ai", WelcomeText, t, newSessionId)
  IN  HookState(<<initialMessage>>, FALSE, NoError, newSessionId, DefaultTitle)

Init ==
  /\ st = HookState(<<>>, FALSE, NoError, NoSid, DefaultTitle)
  /\ view = st
  /\ hasInitialized = FALSE
  /\ reqs = <<>>
  /\ loads = <<>>
  /\ store = {OldConversation}
  /\ now = 4
  /\ SideIdle
  /\ probe = NoProbe

\* useEffect(() => { if (!hasInitialized.current) { initChat(); ... } })
MountEffect ==
  /\ ~hasInitialized
  /\ \E r \in 1..MaxRand : st' = initChat(now, r)
  /\ view' = st'
  /\ hasInitialized' = TRUE
  /\ UNCHANGED <<reqs, loads, store, now, probe, sideVars>>

\* a render: closures created from now on read the current state
Render ==
  /\ view # st
  /\ view' = st
  /\ UNCHANGED <<st, hasInitialized, reqs, loads, store, now, probe, sideVars>>

\* the clock advances
Tick ==
  /\ now < MaxTime
  /\ now' = now + 1
  /\ UNCHANGED <<st, view, hasInitialized, reqs, loads, store, probe, sideVars>>

startNewChat ==
  /\ hasInitialized
  /\ \E r \in 1..MaxRand : st' = initChat(now, r)
  /\ view' = st'
  /\ UNCHANGED <<hasInitialized, reqs, loads, store, now, probe, sideVars>>

\* the exchange record: what the callbacks of one handleSendMessage call close over
Exchange(text, sessionId, placeholderId, messagesWithPlaceholder, closureSid, closureTitle) ==
  [text |-> text, sid |-> sessionId, phId |-> placeholderId,
   withPh |-> messagesWithPlaceholder, cSid |-> closureSid, cTitle |-> closureTitle,
   phase |-> "await", full |-> <<>>, rSid |-> NoSid, chunks |-> <<>>, acc |-> <<>>,
   session |-> NoSession, savedAs |-> NoSid, calls |-> 1]

\* if (!inputText.trim() || isLoading) return;
SendAccepted(inputText) == NonBlank(inputText) /\ ~view.isLoading

\* the messages handleSendMessage builds from the rendered list
newUserMessage(inputText, t) ==
  Message(<<t, "user">>, "user", inputText, t, view.currentSessionId)

\* variant: the placeholder starts with a typing indicator
newPlaceholder_Mut(t) ==
  Message(<<t, "ai">>, "ai", Ellipsis, t, view.currentSessionId)

newPlaceholder(t) ==
  Message(<<t, "ai">>, "ai", <<>>, t, view.currentSessionId)

handleSendMessage(inputText) ==
  /\ hasInitialized
  /\ IF ~SendAccepted(inputText)
     THEN UNCHANGED vars
     ELSE /\ Len(reqs) + Len(loads) < MaxAsync
          /\ \E d \in 0..1 :
               /\ now + d <= MaxTime
               /\ LET userMessage == newUserMessage(inputText, now)
                      placeholder == newPlaceholder(now + d)
                      messagesWithPlaceholder ==
                        Append(Append(view.messages, userMessage), placeholder)
                      newTitle ==
                        IF Len(view.messages) = 1 /\ view.sessionTitle = DefaultTitle
                        THEN generateSessionTitle(inputText)
                        ELSE st.sessionTitle
                  IN  /\ st' = HookState(messagesWithPlaceholder, TRUE, NoError,
                                         st.currentSessionId, newTitle)
                      /\ reqs' = Append(reqs,
                                   Exchange(inputText, view.currentSessionId,
                                            placeholder.id, messagesWithPlaceholder,
                                            view.currentSessionId, view.sessionTitle))
               /\ now' = now + d
          /\ view' = st'
          /\ UNCHANGED <<hasInitialized, loads, store, probe, sideVars>>

\* variant: the failed placeholder is dropped from the list
onError_Mut(s, placeholderId, message) ==
  [s EXCEPT !.error = OrElse(message, "No se pudo obtener respuesta de la IA."),
            !.messages = SelectSeq(s.messages, LAMBDA m : m.id # placeholderId),
            !.isLoading = FALSE]

\* onError of the hook
onError(s, placeholderId, message) ==
  [s EXCEPT !.error = OrElse(message, "No se pudo obtener respuesta de la IA."),
            !.messages = SetText(s.messages, placeholderId, ApologyText),
            !.isLoading = FALSE]

\* variant: filter instead of map, keeping only the placeholder
onChunk_Mut(s, placeholderId, chunkText) ==
  [s EXCEPT !.messages =
     SetText(SelectSeq(s.messages, LAMBDA m : m.id = placeholderId),
             placeholderId, chunkText)]

\* onChunk of the hook
onChunk(s, placeholderId, chunkText) ==
  [s EXCEPT !.messages = SetText(s.messages, placeholderId, chunkText)]

\* the fetch of exchange i settles; on success the first chunk is revealed
GatewayReply(i) ==
  /\ i \in 1..Len(reqs)
  /\ reqs[i].phase = "await"
  /\ \E reply \in GatewayReplies, r \in 1..MaxRand :
       LET out == StreamOutcome(reply, reqs[i].sid, generateSessionId(now, r))
           chunks == splitIntoNaturalChunks(out.fullResponse)
       IN  IF ~out.ok
           THEN /\ st' = onError(st, reqs[i].phId, out.error)
                /\ reqs' = [reqs EXCEPT ![i].phase = "failed"]
           ELSE /\ st' = onChunk(st, reqs[i].phId, Head(chunks))
                /\ reqs' = [reqs EXCEPT ![i].phase = "stream",
                                        ![i].full = out.fullResponse,
                                        ![i].rSid = out.sessionId,
                                        ![i].acc = Head(chunks),
                                        ![i].chunks = Tail(chunks)]
  /\ UNCHANGED <<view, hasInitialized, loads, store, now, probe, sideVars>>

\* saveCurrentSession as closed over by the exchange: the session it will write,
\* or NoSession when it returns at its first line
saveCurrentSession(x, sessionMessages) ==
  IF x.cSid = NoSid \/ Len(sessionMessages) = 0
  THEN NoSession
  ELSE ChatSession(x.cSid, x.cSid, x.cTitle,
                   TimeOr(sessionMessages[1].timestamp, now), now, sessionMessages)

\* variant: the loading flag is not lowered on completion
onComplete_Mut(s, returnedSessionId) ==
  [s EXCEPT !.currentSessionId = returnedSessionId]

\* onComplete of the hook
onComplete(s, returnedSessionId) ==
  [s EXCEPT !.isLoading = FALSE, !.currentSessionId = returnedSessionId]

\* a reveal timer of exchange i fires: the next chunk, or the completion
StreamStep(i) ==
  /\ i \in 1..Len(reqs)
  /\ reqs[i].phase = "stream"
  /\ IF reqs[i].chunks # <<>>
     THEN LET accumulatedText == reqs[i].acc \o Head(reqs[i].chunks)
          IN  /\ st' = onChunk(st, reqs[i].phId, accumulatedText)
              /\ reqs' = [reqs EXCEPT ![i].acc = accumulatedText,
                                      ![i].chunks = Tail(reqs[i].chunks)]
     ELSE LET finalMessages ==
                SetTextAndSession(reqs[i].withPh, reqs[i].phId, reqs[i].full, reqs[i].rSid)
              session == saveCurrentSession(reqs[i], finalMessages)
          IN  /\ st' = onComplete(st, reqs[i].rSid)
              /\ reqs' = [reqs EXCEPT ![i].phase = IF session = NoSession
                                                   THEN "done" ELSE "saving",
                                      ![i].session = session,
                                      ![i].savedAs = session.id]
  /\ UNCHANGED <<view, hasInitialized, loads, store, now, probe, sideVars>>

\* saveCurrentSession after its first await: the local write has settled and
\* the last user message is sent to the question endpoint again (the result of
\* that second request is only logged)
SaveLocal(i) ==
  /\ i \in 1..Len(reqs)
  /\ reqs[i].phase = "saving"
  /\ \E succeeds \in BOOLEAN :
       store' = saveConversation(store, reqs[i].session, succeeds)
  /\ reqs' = [reqs EXCEPT ![i].phase = "done", ![i].calls = reqs[i].calls + 1]
  /\ UNCHANGED <<st, view, hasInitialized, loads, now, probe, sideVars>>

\* variant: the title of the loaded conversation is not applied
applyConversation_Mut(s, conversation) ==
  [s EXCEPT !.currentSessionId = SidOr(conversation.sessionId, conversation.id),
            !.messages = conversation.messages]

\* setCurrentSessionId / setSessionTitle / setMessages of a loaded conversation
applyConversation(s, conversation) ==
  [s EXCEPT !.currentSessionId = SidOr(conversation.sessionId, conversation.id),
            !.sessionTitle = conversation.title,
            !.messages = conversation.messages]

\* useConversationStorage.loadConversation: StoredConversation -> ChatSession
storedToSession(stored) ==
  ChatSession(stored.id, stored.id, stored.title, stored.createdAt,
              stored.updatedAt, stored.messages)

\* loadConversation up to its first await
loadConversation(sessionId) ==
  /\ hasInitialized
  /\ Len(reqs) + Len(loads) < MaxAsync
  /\ st' = [st EXCEPT !.isLoading = TRUE, !.error = NoError]
  /\ view' = st'
  /\ loads' = Append(loads, [id |-> sessionId, phase |-> "local", local |-> "none",
                             conv |-> NoSession])
  /\ UNCHANGED <<hasInitialized, reqs, store, now, probe, sideVars>>

\* the local lookup settles: found, not found, or failed (caught, null)
LoadLocal(j) ==
  /\ j \in 1..Len(loads)
  /\ loads[j].phase = "local"
  /\ \E fails \in BOOLEAN :
       LET hit == IF fails THEN {} ELSE Get(store, loads[j].id)
       IN  IF hit # {}
           THEN LET localConversation == storedToSession(CHOOSE x \in hit : TRUE)
                IN  /\ st' = [applyConversation(st, localConversation)
                                EXCEPT !.isLoading = FALSE]
                    /\ loads' = [loads EXCEPT ![j].phase = "done",
                                              ![j].local = "found",
                                              ![j].conv = localConversation]
           ELSE /\ st' = st
                /\ loads' = [loads EXCEPT ![j].phase = "remote",
                                          ![j].local = IF fails THEN "error"
                                                       ELSE "missing"]
  /\ UNCHANGED <<view, hasInitialized, reqs, store, now, probe, sideVars>>

\* historyService.getConversation settles
LoadRemote(j) ==
  /\ j \in 1..Len(loads)
  /\ loads[j].phase = "remote"
  /\ \E response \in RemoteResponses(loads[j].id) :
       IF response.success /\ response.hasData
       THEN /\ st' = applyConversation(st, response.data)
            /\ loads' = [loads EXCEPT ![j].phase = "saving", ![j].conv = response.data]
       ELSE /\ st' = [st EXCEPT !.error = OrElse(response.error,
                                                 "Error al cargar la conversacion"),
                                !.isLoading = FALSE]
            /\ loads' = [loads EXCEPT ![j].phase = "done"]
  /\ UNCHANGED <<view, hasInitialized, reqs, store, now, probe, sideVars>>

\* the remote conversation has been written to the local store (or the write
\* failed); finally { setIsLoading(false) }
LoadSave(j) ==
  /\ j \in 1..Len(loads)
  /\ loads[j].phase = "saving"
  /\ \E succeeds \in BOOLEAN :
       store' = saveConversation(store, loads[j].conv, succeeds)
  /\ st' = [st EXCEPT !.isLoading = FALSE]
  /\ loads' = [loads EXCEPT ![j].phase = "done"]
  /\ UNCHANGED <<view, hasInitialized, reqs, now, probe, sideVars>>

Next ==
  \/ MountEffect
  \/ Render
  \/ Tick
  \/ startNewChat
  \/ \E inputText \in InputTexts : handleSendMessage(inputText)
  \/ \E i \in 1..MaxAsync : GatewayReply(i)
  \/ \E i \in 1..MaxAsync : StreamStep(i)
  \/ \E i \in 1..MaxAsync : SaveLocal(i)
  \/ \E sessionId \in LoadableIds : loadConversation(sessionId)
  \/ \E j \in 1..MaxAsync : LoadLocal(j)
  \/ \E j \in 1..MaxAsync : LoadRemote(j)
  \/ \E j \in 1..MaxAsync : LoadSave(j)

Spec == Init /\ [][Next]_vars

----------------------------------------------------------------------------
(* generateSessionTitle on its own: the input is drawn, the function applied *)

Letters(n, c) == [k \in 1..n |-> c]

\* first messages: optional leading blank, a run of letters, an optional
\* terminator group, a second run
TitleInputs ==
  { lead \o Letters(n, "a") \o sep \o Letters(m, "b") :
      lead \in {<<>>, <<" ">>},
      n \in 0..MaxPrefix,
      sep \in {<<>>, <<".">>, <<" ", "!">>, <<"?", ".">>},
      m \in {0, 3, MaxPrefix} }

InitTitle ==
  /\ st = HookState(<<>>, FALSE, NoError, NoSid, DefaultTitle)
  /\ view = st
  /\ hasInitialized = FALSE
  /\ reqs = <<>>
  /\ loads = <<>>
  /\ store = {OldConversation}
  /\ now = 4
  /\ SideIdle
  /\ probe \in {[fn |-> "generateSessionTitle", arg |-> t, done |-> FALSE,
                 result |-> <<>>] : t \in TitleInputs}

ApplyTitle ==
  /\ probe.fn = "generateSessionTitle"
  /\ ~probe.done
  /\ probe' = [probe EXCEPT !.done = TRUE, !.result = generateSessionTitle(probe.arg)]
  /\ UNCHANGED hookVars

NextTitle == ApplyTitle

SpecTitle == InitTitle /\ [][NextTitle]_vars

----------------------------------------------------------------------------
(* The reply handling of sendMessageStreamSimulated on its own *)

ReplyTexts(c) == {<<>>, <<" ">>, <<c>>}

ReplyBodies ==
  { Body(hasStatus, statusCode, isSuccess, err, nat, resp, ctx, sid, clar, friendly) :
      hasStatus \in BOOLEAN,
      statusCode \in {199, 200, 299, 300},
      isSuccess \in BOOLEAN,
      err \in {"", "boom"},
      nat \in ReplyTexts("N"),
      resp \in ReplyTexts("R"),
      ctx \in ReplyTexts("Q"),
      sid \in {NoSid, ServerSid(1)},
      clar \in {<<>>, <<"C">>},
      friendly \in {<<>>, <<"F">>} }

ReplyInputs ==
  { [reply |-> Reply(net, hasData, d), sessionId |-> sessionId] :
      net \in {"throw", "notok", "ok"},
      hasData \in BOOLEAN,
      d \in ReplyBodies,
      sessionId \in {NoSid, OldSid} }

InitReply ==
  /\ st = HookState(<<>>, FALSE, NoError, NoSid, DefaultTitle)
  /\ view = st
  /\ hasInitialized = FALSE
  /\ reqs = <<>>
  /\ loads = <<>>
  /\ store = {OldConversation}
  /\ now = 4
  /\ SideIdle
  /\ probe \in {[fn |-> "sendMessageStreamSimulated", arg |-> a, done |-> FALSE,
                 result |-> <<>>] : a \in ReplyInputs}

ApplyReply ==
  /\ probe.fn = "sendMessageStreamSimulated"
  /\ ~probe.done
  /\ \E r \in 1..MaxRand :
       probe' = [probe EXCEPT
                   !.done = TRUE,
                   !.result = StreamOutcome(probe.arg.reply, probe.arg.sessionId,
                                            generateSessionId(now, r))]
  /\ UNCHANGED hookVars

NextReply == ApplyReply

SpecReply == InitReply /\ [][NextReply]_vars

----------------------------------------------------------------------------
(* The session hook under fair scheduling: a settled fetch is delivered, a   *)
(* reveal timer fires, a store lookup or remote lookup settles, and a queued *)
(* state update is rendered                                                  *)

FairSpec ==
  /\ Init /\ [][Next]_vars
  /\ \A i \in 1..MaxAsync : WF_vars(GatewayReply(i)) /\ WF_vars(StreamStep(i))
  /\ \A j \in 1..MaxAsync :
       WF_vars(LoadLocal(j)) /\ WF_vars(LoadRemote(j)) /\ WF_vars(LoadSave(j))
  /\ WF_vars(Render)

----------------------------------------------------------------------------
(* Vocabulary of the properties *)

IdsOf(messages) == [k \in 1..Len(messages) |-> messages[k].id]

IsPrefix(a, b) == Len(a) <= Len(b) /\ SubSeq(b, 1, Len(a)) = a

\* the gateway request of exchange i has not settled
InFlight(i) == i \in 1..Len(reqs) /\ reqs[i].phase = "await"

\* exchange i is between its send and its onComplete / onError
Pending(i) == i \in 1..Len(reqs) /\ reqs[i].phase \in {"await", "stream"}

\* onComplete or onError of exchange i has been delivered
Terminal(i) == i \in 1..Len(reqs) /\ reqs[i].phase \in {"saving", "done", "failed"}

\* this step accepted a send
SendStep == Len(reqs') > Len(reqs)

\* this step delivered onError to exchange i
FailStep(i) == InFlight(i) /\ reqs'[i].phase = "failed"

\* this step replaced the active session: a new chat or a loaded conversation
SwitchStep ==
  \/ startNewChat
  \/ MountEffect
  \/ \E j \in 1..Len(loads) : loads'[j].conv # loads[j].conv

StrictlyOrdered(messages) ==
  \A k \in 1..(Len(messages) - 1) : messages[k].timestamp < messages[k + 1].timestamp

NonDecreasing(messages) ==
  \A k \in 1..(Len(messages) - 1) : messages[k].timestamp <= messages[k + 1].timestamp

----------------------------------------------------------------------------
(* Properties *)

\* C1: an accepted send extends the rendered message list by exactly one USER
\* message carrying the text followed by one AI message with empty text, in the
\* same step in which the gateway request is issued and before it settles.
C1_SendAppendsPair ==
  [][SendStep =>
       LET x == reqs'[Len(reqs')]
           n == Len(view.messages)
       IN  /\ NonBlank(x.text)
           /\ Len(st'.messages) = n + 2
           /\ SubSeq(st'.messages, 1, n) = view.messages
           /\ st'.messages[n + 1].sender = "user"
           /\ st'.messages[n + 1].text = x.text
           /\ st'.messages[n + 2].sender = "ai"
           /\ st'.messages[n + 2].text = <<>>
           /\ st'.messages[n + 2].id = x.phId
           /\ x.phase = "await"
           /\ x.withPh = st'.messages]_vars

C1_Witness ==
  /\ Len(reqs) = 1
  /\ reqs[1].phase = "await"
  /\ Len(st.messages) = 3
  /\ st.messages[2].sender = "user"
  /\ st.messages[3].id = reqs[1].phId
  /\ st.messages[3].text = <<>>

\* C2: a send changes state only when its text is non-blank and no gateway
\* request is pending (a send with blank text or with a request pending is a
\* no-op).
C2_SendNoOpWhenBlankOrPending ==
  [][SendStep =>
       /\ NonBlank(reqs'[Len(reqs')].text)
       /\ ~\E i \in 1..Len(reqs) : InFlight(i)]_vars

\* C3 as stated: a terminator among the first 50 characters decides between
\* the leading sentence and the 47-character cut.
C3_TitleAsStated ==
  (probe.fn = "generateSessionTitle" /\ probe.done) =>
    LET t == Trim(probe.arg)
        title == probe.result
        p == FirstIndex(t, IsTerminator)
    IN  /\ title = IF Len(t) <= 50 THEN t
                   ELSE IF p >= 1 /\ p <= 50 THEN SubSeq(t, 1, p - 1)
                   ELSE SubSeq(t, 1, 47) \o <<".", ".", ".">>
        /\ (t # <<>> => title # <<>>)
        /\ Len(title) <= 50

\* C3 (amended): the title is t when t has at most 50 characters; otherwise,
\* when the first terminator of t is at one of the positions 2..51, the text
\* before it without trailing whitespace; otherwise the first 47 characters
\* followed by "...".  It is non-empty for non-empty t and never longer than 50.
C3_Title ==
  (probe.fn = "generateSessionTitle" /\ probe.done) =>
    LET t == Trim(probe.arg)
        title == probe.result
        p == FirstIndex(t, IsTerminator)
    IN  /\ title = IF Len(t) <= 50 THEN t
                   ELSE IF p >= 2 /\ p <= 51 THEN TrimEnd(SubSeq(t, 1, p - 1))
                   ELSE SubSeq(t, 1, 47) \o <<".", ".", ".">>
        /\ (t # <<>> => title # <<>>)
        /\ Len(title) <= 50

C3_Witness ==
  /\ probe.fn = "generateSessionTitle"
  /\ probe.done
  /\ Len(Trim(probe.arg)) > 50
  /\ FirstIndex(Trim(probe.arg), IsTerminator) = 51
  /\ Len(probe.result) = 50

\* C4: an exchange sent with an empty session id ends with a non-empty session
\* id returned by the gateway, and that returned id is the id under which the
\* exchange is persisted.
C4_EmptySidPersistedUnderReturned ==
  \A i \in 1..Len(reqs) :
    (reqs[i].sid = NoSid /\ reqs[i].phase \in {"saving", "done"}) =>
      /\ reqs[i].rSid # NoSid
      /\ reqs[i].savedAs = reqs[i].rSid

\* C5 as stated: after a failed gateway call the list holds the USER message
\* and the placeholder with the apology, error is set and isLoading is false.
C5_FailureAsStated ==
  [][\A i \in 1..Len(reqs) :
       FailStep(i) =>
         /\ \E k \in 2..Len(st'.messages) :
              /\ st'.messages[k].id = reqs[i].phId
              /\ st'.messages[k].text = ApologyText
              /\ st'.messages[k - 1].sender = "user"
              /\ st'.messages[k - 1].text = reqs[i].text
         /\ st'.error # NoError
         /\ ~st'.isLoading]_vars

\* C5 (amended): a failed gateway call sets a non-empty error and lowers
\* isLoading, removes no message, and the placeholder of the exchange, where
\* the list still holds it, follows a USER message and carries the apology.
C5_Failure ==
  [][\A i \in 1..Len(reqs) :
       FailStep(i) =>
         /\ st'.error # NoError
         /\ ~st'.isLoading
         /\ IdsOf(st'.messages) = IdsOf(st.messages)
         /\ \A k \in 1..Len(st.messages) :
              IF st.messages[k].id = reqs[i].phId
              THEN /\ st'.messages[k].text = ApologyText
                   /\ k > 1
                   /\ st'.messages[k - 1].sender = "user"
              ELSE st'.messages[k] = st.messages[k]]_vars

C5_Witness ==
  \E i \in 1..Len(reqs) :
    /\ reqs[i].phase = "failed"
    /\ st.error # NoError
    /\ ~st.isLoading
    /\ \E k \in 2..Len(st.messages) :
         /\ st.messages[k].id = reqs[i].phId
         /\ st.messages[k].text = ApologyText
         /\ st.messages[k - 1].text = reqs[i].text

\* C6: every accepted send is eventually answered by onComplete or onError
\* with isLoading false, and is eventually followed by a render in which
\* isLoading is false, so that a new send is accepted.
C6_EventuallyIdle ==
  \A i \in 1..MaxAsync :
    /\ Pending(i) ~> (Terminal(i) /\ ~st.isLoading)
    /\ Pending(i) ~> (Terminal(i) /\ ~view.isLoading)

\* an exchange has ended and the hook is idle again: a send would be accepted
C6_Witness ==
  /\ Len(reqs) >= 1
  /\ Terminal(1)
  /\ ~st.isLoading
  /\ ~view.isLoading
  /\ SendAccepted(<<"h", "i">>)

\* C7 as stated: outside session switches the list only grows at its end, and
\* timestamps strictly increase along the list.
C7_AppendOnlyStrictAsStated ==
  /\ [](StrictlyOrdered(st.messages))
  /\ [][~SwitchStep => IsPrefix(IdsOf(st.messages), IdsOf(st'.messages))]_vars

\* C7 (amended): timestamps never decrease along the list, and outside session
\* switches every step keeps the messages its handler observed (the rendered
\* list for a send, the current list for a chunk, completion or failure) as
\* a prefix, in order, of the resulting list.
C7_AppendOnlyOrdered ==
  /\ [](NonDecreasing(st.messages))
  /\ [][~SwitchStep =>
          IsPrefix(IdsOf(IF SendStep THEN view.messages ELSE st.messages),
                   IdsOf(st'.messages))]_vars

\* two exchanges in one list, the second appended after the first ended
C7_Witness ==
  /\ Len(reqs) = 2
  /\ Len(st.messages) = 5
  /\ st.messages[3].id = reqs[1].phId
  /\ st.messages[5].id = reqs[2].phId
  /\ st.messages[2].timestamp = st.messages[3].timestamp

C9_StartNewChat ==
  [][startNewChat =>
       /\ Len(st'.messages) = 1
       /\ st'.messages[1].sender = "ai"
       /\ st'.messages[1].text = WelcomeText
       /\ st'.sessionTitle = DefaultTitle
       /\ st'.error = NoError
       /\ ~st'.isLoading
       /\ st'.currentSessionId # NoSid
       /\ st'.currentSessionId[1] = "gen"
       /\ st'.currentSessionId[2] = now
       /\ st'.messages[1].sessionId = st'.currentSessionId
       /\ reqs' = reqs /\ loads' = loads /\ store' = store]_vars

\* a new chat started while an exchange was in flight
C9_Witness ==
  /\ Len(reqs) >= 1
  /\ reqs[1].phase = "await"
  /\ Len(st.messages) = 1
  /\ st.messages[1].text = WelcomeText
  /\ ~st.isLoading
  /\ st.error = NoError

\* first element of a sequence of texts that is non-blank
FirstNonBlank(fields, otherwise) ==
  IF \E k \in 1..Len(fields) : NonBlank(fields[k])
  THEN fields[CHOOSE k \in 1..Len(fields) :
                NonBlank(fields[k]) /\ \A j \in 1..(k - 1) : ~NonBlank(fields[j])]
  ELSE otherwise

\* C10 as stated: the answer is the first non-blank of natural-language
\* answer, clarification message, user-friendly description, raw message,
\* contextualized question.
C10_AnswerPriorityAsStated ==
  (probe.fn = "sendMessageStreamSimulated" /\ probe.done /\ probe.result.ok) =>
    LET d == probe.arg.reply.data
    IN  probe.result.fullResponse =
          FirstNonBlank(<<d.naturalResponse, d.clarificationMessage, d.userFriendly,
                          d.response, d.contextualizedQuestions>>,
                        probe.result.fullResponse)

\* C10 (amended): the answer is the first non-blank of natural-language
\* answer, raw response, contextualized question, and the fixed sentence when
\* all three are blank; no other field of the reply is consulted.
C10_AnswerPriority ==
  (probe.fn = "sendMessageStreamSimulated" /\ probe.done /\ probe.result.ok) =>
    LET d == probe.arg.reply.data
    IN  probe.result.fullResponse =
          FirstNonBlank(<<d.naturalResponse, d.response, d.contextualizedQuestions>>,
                        FallbackAnswer)

\* a reply whose clarification message is set but whose raw response is shown
C10_Witness ==
  /\ probe.fn = "sendMessageStreamSimulated"
  /\ probe.done
  /\ probe.result.ok
  /\ ~NonBlank(probe.arg.reply.data.naturalResponse)
  /\ NonBlank(probe.arg.reply.data.clarificationMessage)
  /\ NonBlank(probe.arg.reply.data.response)
  /\ probe.result.fullResponse = probe.arg.reply.data.response

\* C11: a reply is treated as success exactly when it arrived with an HTTP 2xx
\* status and a body whose statusCode is in 200..299, whatever its isSuccess
\* flag: a body statusCode outside that range, or absent, ends in onError, and
\* a statusCode in the range with isSuccess = false ends in onComplete.
C11_SuccessIffStatusCode2xx ==
  (probe.fn = "sendMessageStreamSimulated" /\ probe.done) =>
    LET reply == probe.arg.reply
        d == reply.data
    IN  IF reply.net = "ok" /\ reply.hasData
        THEN probe.result.ok <=>
               (d.hasStatus /\ d.statusCode >= 200 /\ d.statusCode <= 299)
        ELSE ~probe.result.ok

\* a reply with statusCode 299 and isSuccess = false that completed
C11_Witness ==
  /\ probe.fn = "sendMessageStreamSimulated"
  /\ probe.done
  /\ probe.result.ok
  /\ probe.arg.reply.data.statusCode = 299
  /\ ~probe.arg.reply.data.isSuccess

----------------------------------------------------------------------------
(* Excluded terms: validateTerm of the two ExcludedTermsService versions     *)
(* (the backend one and the IndexedDB one).  A character is a one-element    *)
(* string; an accented letter is written as its name.                        *)

\* longest run of letters among the terms under test
MaxTermLen == 101

TermMin == 2
TermMaxBackend == 100
TermMaxIndexedDB == 50

AsciiLetters ==
  {"a", "b", "c", "d", "e", "f", "g", "h", "i", "j", "k", "l", "m", "n", "o", "p",
   "q", "r", "s", "t", "u", "v", "w", "x", "y", "z",
   "A", "B", "C", "D", "E", "F", "G", "H", "I", "J", "K", "L", "M", "N", "O", "P",
   "Q", "R", "S", "T", "U", "V", "W", "X", "Y", "Z"}

Digits == {"0", "1", "2", "3", "4", "5", "6", "7", "8", "9"}

\* the accented letters of the backend pattern, in both cases (flag i)
AccentedLetters ==
  {"a-acute", "e-acute", "i-acute", "o-acute", "u-acute", "n-tilde", "u-diaeresis",
   "A-acute", "E-acute", "I-acute", "O-acute", "U-acute", "N-tilde", "U-diaeresis"}

\* /^[a-zA-Z0-9\s\-_.,!?áéíóúñü]+$/i on one character
BackendPattern(c) ==
  c \in AsciiLetters \cup Digits \cup AccentedLetters \cup {" ", "-", "_", ".", ",", "!", "?"}

\* /^[a-zA-Z0-9\s\-']+$/ on one character
IndexedDBPattern(c) ==
  c \in AsciiLetters \cup Digits \cup {" ", "-", "'"}

Valid == [isValid |-> TRUE, error |-> ""]

Invalid(error) == [isValid |-> FALSE, error |-> error]

\* validateTerm of the backend service
validateTerm(term) ==
  LET trimmedTerm == Trim(term)
  IN  IF trimmedTerm = <<>> THEN Invalid("El termino no puede estar vacio")
      ELSE IF Len(trimmedTerm) < TermMin
      THEN Invalid("El termino debe tener al menos 2 caracteres")
      ELSE IF Len(trimmedTerm) > TermMaxBackend
      THEN Invalid("El termino no puede tener mas de 100 caracteres")
      ELSE IF \E k \in 1..Len(trimmedTerm) : ~BackendPattern(trimmedTerm[k])
      THEN Invalid("El termino contiene caracteres no validos")
      ELSE Valid

\* validateTerm of the IndexedDB service
validateTerm_IndexedDB(term) ==
  LET trimmed == Trim(term)
  IN  IF trimmed = <<>> THEN Invalid("El termino no puede estar vacio")
      ELSE IF Len(trimmed) < TermMin
      THEN Invalid("El termino debe tener al menos 2 caracteres")
      ELSE IF Len(trimmed) > TermMaxIndexedDB
      THEN Invalid("El termino no puede tener mas de 50 caracteres")
      ELSE IF \E k \in 1..Len(trimmed) : ~IndexedDBPattern(trimmed[k])
      THEN Invalid("El termino contiene caracteres no validos")
      ELSE Valid

\* lengths around the limits of both versions
TermLengths ==
  (0..3) \cup ((TermMaxIndexedDB - 1)..(TermMaxIndexedDB + 1))
         \cup ((TermMaxBackend - 1)..MaxTermLen)

\* one character of every class, and two of none
TermMarks ==
  {"a", "Z", "7", " ", "-", "_", ".", ",", "!", "?", "'", "o-acute", "N-tilde", "@", "c-cedilla"}

\* terms: optional surrounding blanks, a run of letters, one marked character
TermInputs ==
  { lead \o Letters(n, "a") \o mark \o trail :
      lead \in {<<>>, <<" ">>},
      n \in TermLengths,
      mark \in {<<>>} \cup {<<c>> : c \in TermMarks},
      trail \in {<<>>, <<" ">>} }

InitValidate ==
  /\ st = HookState(<<>>, FALSE, NoError, NoSid, DefaultTitle)
  /\ view = st
  /\ hasInitialized = FALSE
  /\ reqs = <<>>
  /\ loads = <<>>
  /\ store = {OldConversation}
  /\ now = 4
  /\ SideIdle
  /\ probe \in {[fn |-> f, arg |-> t, done |-> FALSE, result |-> <<>>] :
                  f \in {"validateTerm", "validateTerm_IndexedDB"}, t \in TermInputs}

ApplyValidate ==
  /\ probe.fn \in {"validateTerm", "validateTerm_IndexedDB"}
  /\ ~probe.done
  /\ probe' = [probe EXCEPT
                 !.done = TRUE,
                 !.result = IF probe.fn = "validateTerm"
                            THEN validateTerm(probe.arg)
                            ELSE validateTerm_IndexedDB(probe.arg)]
  /\ UNCHANGED hookVars

NextValidate == ApplyValidate

SpecValidate == InitValidate /\ [][NextValidate]_vars

\* C12: validateTerm, in either version of the service, accepts exactly the
\* terms whose trimmed form is non-empty, has between 2 and 100 characters
\* and consists only of letters (accented ones included), digits, spaces and
\* basic punctuation; so every 1-character term is rejected, every
\* 2-character alphabetic term is accepted and every term whose trimmed form
\* has 101 or more characters is rejected.
C12_ValidateTerm ==
  (probe.fn \in {"validateTerm", "validateTerm_IndexedDB"} /\ probe.done) =>
    LET t == Trim(probe.arg)
        allowed == AsciiLetters \cup AccentedLetters \cup Digits
                     \cup {" ", "-", "_", ".", ",", "!", "?"}
        alphabetic == \A k \in 1..Len(t) : t[k] \in AsciiLetters \cup AccentedLetters
    IN  /\ probe.result.isValid <=>
             (t # <<>> /\ Len(t) >= 2 /\ Len(t) <= 100
                /\ \A k \in 1..Len(t) : t[k] \in allowed)
        /\ Len(t) = 1 => ~probe.result.isValid
        /\ (Len(t) = 2 /\ alphabetic) => probe.result.isValid
        /\ Len(t) >= 101 => ~probe.result.isValid

----------------------------------------------------------------------------
(* Excluded terms: containsExcludedTerms and filterText of the two service   *)
(* versions.  A term is used as the source of a regular expression; of the   *)
(* operators a valid term can hold, the wildcard "." is modelled (terms      *)
(* holding "?" are not among the inputs).                                    *)

\* longest text given to the filter
MaxTextLen == 6

UpperCase == <<"A", "B", "C", "D", "E", "F", "G", "H", "I", "J", "K", "L", "M",
               "N", "O", "P", "Q", "R", "S", "T", "U", "V", "W", "X", "Y", "Z">>

LowerCase == <<"a", "b", "c", "d", "e", "f", "g", "h", "i", "j", "k", "l", "m",
               "n", "o", "p", "q", "r", "s", "t", "u", "v", "w", "x", "y", "z">>

\* String.prototype.toLowerCase on one character
LowerChar(c) ==
  IF \E k \in 1..26 : UpperCase[k] = c
  THEN LowerCase[CHOOSE k \in 1..26 : UpperCase[k] = c]
  ELSE c

toLowerCase(s) == [k \in 1..Len(s) |-> LowerChar(s[k])]

\* text.includes(part)
Includes(text, part) ==
  \E i \in 1..(Len(text) - Len(part) + 1) : SubSeq(text, i, i + Len(part) - 1) = part

\* \w of a regular expression without the u flag
IsWordChar(c) == c \in AsciiLetters \cup Digits \cup {"_"}

\* \b between positions i - 1 and i of text
WordBoundary(text, i) ==
  LET before == i > 1 /\ IsWordChar(text[i - 1])
      after == i <= Len(text) /\ IsWordChar(text[i])
  IN  before # after

\* the pattern, read as a regular expression with flag i, matches at i
MatchesAt(pattern, text, i, bounded) ==
  /\ i >= 1
  /\ i + Len(pattern) - 1 <= Len(text)
  /\ \A k \in 1..Len(pattern) :
       pattern[k] = "." \/ LowerChar(pattern[k]) = LowerChar(text[i + k - 1])
  /\ bounded => WordBoundary(text, i) /\ WordBoundary(text, i + Len(pattern))

\* regex.test(text)
Test(pattern, text, bounded) ==
  \E i \in 1..Len(text) : MatchesAt(pattern, text, i, bounded)

\* text.replace(regex, replacement) with flag g: leftmost matches, no overlap
RECURSIVE ReplaceFrom(_, _, _, _, _)
ReplaceFrom(pattern, text, from, replacement, bounded) ==
  IF \E i \in from..Len(text) : MatchesAt(pattern, text, i, bounded)
  THEN LET i == CHOOSE i \in from..Len(text) :
                  /\ MatchesAt(pattern, text, i, bounded)
                  /\ \A j \in from..(i - 1) : ~MatchesAt(pattern, text, j, bounded)
       IN  SubSeq(text, from, i - 1) \o replacement
             \o ReplaceFrom(pattern, text, i + Len(pattern), replacement, bounded)
  ELSE SubSeq(text, from, Len(text))

\* .replace(/\s+/g, ' ').trim()
CollapseSpaces(text) ==
  LET kept == {k \in 1..Len(text) : ~(IsSpace(text[k]) /\ k > 1 /\ IsSpace(text[k - 1]))}
      nth(n) == CHOOSE k \in kept : Cardinality({j \in kept : j <= k}) = n
  IN  Trim([n \in 1..Cardinality(kept) |-> text[nth(n)]])

ExcludedTerm(id, term, category, isActive, createdAt, updatedAt) ==
  [id |-> id, term |-> term, category |-> category, isActive |-> isActive,
   createdAt |-> createdAt, updatedAt |-> updatedAt]

\* terms.filter(term => term.isActive)
ActiveTerms(terms) == SelectSeq(terms, LAMBDA t : t.isActive)

\* containsExcludedTerms of the backend service
containsExcludedTerms(terms, text) ==
  LET lowerText == toLowerCase(text)
      foundTerms == SelectSeq(ActiveTerms(terms),
                              LAMBDA t : Includes(lowerText, toLowerCase(t.term)))
  IN  [hasExcludedTerms |-> foundTerms # <<>>,
       foundTerms |-> [k \in 1..Len(foundTerms) |-> foundTerms[k].term]]

RECURSIVE FilterLoop(_, _, _)
FilterLoop(activeTerms, filteredText, removedTerms) ==
  IF activeTerms = <<>>
  THEN [filteredText |-> filteredText, removedTerms |-> removedTerms]
  ELSE LET term == Head(activeTerms).term
       IN  IF Test(term, filteredText, FALSE)
           THEN FilterLoop(Tail(activeTerms),
                           CollapseSpaces(ReplaceFrom(term, filteredText, 1, <<>>, FALSE)),
                           Append(removedTerms, term))
           ELSE FilterLoop(Tail(activeTerms), filteredText, removedTerms)

\* filterText of the backend service
filterText(terms, text) == FilterLoop(ActiveTerms(terms), text, <<>>)

\* [...new Set(list)]: the first occurrence of every element, in order
Distinct(list) ==
  LET first == {k \in 1..Len(list) : \A j \in 1..(k - 1) : list[j] # list[k]}
      nth(n) == CHOOSE k \in first : Cardinality({j \in first : j <= k}) = n
  IN  [n \in 1..Cardinality(first) |-> list[nth(n)]]

ExcludedTermsConfig(userId, terms, globallyExcluded, isEnabled, lastUpdated) ==
  [userId |-> userId, terms |-> terms, globallyExcluded |-> globallyExcluded,
   isEnabled |-> isEnabled, lastUpdated |-> lastUpdated]

\* getActiveExcludedTerms of the IndexedDB service
getActiveExcludedTerms(config) ==
  IF ~config.isEnabled THEN <<>>
  ELSE LET active == ActiveTerms(config.terms)
           activeTerms == [k \in 1..Len(active) |-> toLowerCase(active[k].term)]
           globalTerms == [k \in 1..Len(config.globallyExcluded) |->
                             toLowerCase(config.globallyExcluded[k])]
       IN  Distinct(activeTerms \o globalTerms)

\* containsExcludedTerms of the IndexedDB service
containsExcludedTerms_IndexedDB(config, text) ==
  LET textLower == toLowerCase(text)
      foundTerms == SelectSeq(getActiveExcludedTerms(config),
                              LAMBDA term : Includes(textLower, term))
  IN  [hasExcludedTerms |-> foundTerms # <<>>, foundTerms |-> foundTerms]

TermFiltered == <<"[TERM_FILTERED]">>

Mask == <<"*", "*", "*">>

RECURSIVE FilterLoop_IndexedDB(_, _, _)
FilterLoop_IndexedDB(excludedTerms, filteredText, removedTerms) ==
  IF excludedTerms = <<>>
  THEN [filteredText |->
          CollapseSpaces(ReplaceFrom(TermFiltered, filteredText, 1, Mask, FALSE)),
        removedTerms |-> removedTerms]
  ELSE LET term == Head(excludedTerms)
       IN  IF Test(term, filteredText, TRUE)
           THEN FilterLoop_IndexedDB(Tail(excludedTerms),
                                     ReplaceFrom(term, filteredText, 1, TermFiltered, TRUE),
                                     Append(removedTerms, term))
           ELSE FilterLoop_IndexedDB(Tail(excludedTerms), filteredText, removedTerms)

\* filterText of the IndexedDB service
filterText_IndexedDB(config, text) ==
  FilterLoop_IndexedDB(getActiveExcludedTerms(config), text, <<>>)

\* texts over a small alphabet
RECURSIVE TextsOfLen(_)
TextsOfLen(n) ==
  IF n = 0 THEN {<<>>}
  ELSE {Append(t, c) : t \in TextsOfLen(n - 1), c \in {"a", "b", "c", " "}}

FilterTexts == UNION {TextsOfLen(n) : n \in 0..MaxTextLen}

\* term texts: plain, with a wildcard, with a blank, with a capital
FilterTermTexts == {<<"a", "b">>, <<"a", ".", "c">>, <<"b", " ", "c">>, <<"A", "c">>}

FilterTerm(text, isActive) == ExcludedTerm(text, text, "custom", isActive, 1, 1)

FilterTermLists ==
  {<<>>}
    \cup {<<FilterTerm(t, a)>> : t \in FilterTermTexts, a \in BOOLEAN}
    \cup {<<FilterTerm(<<"a", "b">>, TRUE), FilterTerm(t, TRUE)>> :
            t \in FilterTermTexts \ {<<"a", "b">>}}
    \cup {<<FilterTerm(<<"b", " ", "c">>, TRUE), FilterTerm(<<"a", "b">>, a)>> : a \in BOOLEAN}

FilterInputs ==
  { [terms |-> l, isEnabled |-> e, text |-> t] :
      l \in FilterTermLists, e \in BOOLEAN, t \in FilterTexts }

NotRun == [filteredText |-> <<"not run">>, removedTerms |-> <<>>]

FilterConfig(arg) == ExcludedTermsConfig("user", arg.terms, <<>>, arg.isEnabled, 1)

\* the function under test applied to a text
FilterWith(fn, arg, text) ==
  IF fn = "filterText" THEN filterText(arg.terms, text)
  ELSE filterText_IndexedDB(FilterConfig(arg), text)

ContainsWith(fn, arg, text) ==
  IF fn = "filterText" THEN containsExcludedTerms(arg.terms, text)
  ELSE containsExcludedTerms_IndexedDB(FilterConfig(arg), text)

InitFilter ==
  /\ st = HookState(<<>>, FALSE, NoError, NoSid, DefaultTitle)
  /\ view = st
  /\ hasInitialized = FALSE
  /\ reqs = <<>>
  /\ loads = <<>>
  /\ store = {OldConversation}
  /\ now = 4
  /\ SideIdle
  /\ probe \in {p \in {[fn |-> f, arg |-> a, done |-> FALSE, result |-> NotRun,
                          again |-> NotRun] :
                           f \in {"filterText", "filterText_IndexedDB"}, a \in FilterInputs} :
                  p.fn = "filterText" => p.arg.isEnabled}

\* filterText(userId, text)
ApplyFilter ==
  /\ probe.fn \in {"filterText", "filterText_IndexedDB"}
  /\ ~probe.done
  /\ probe' = [probe EXCEPT !.done = TRUE,
                            !.result = FilterWith(probe.fn, probe.arg, probe.arg.text)]
  /\ UNCHANGED hookVars

\* filterText(userId, r.filteredText) on the result of the first call
ApplyFilterAgain ==
  /\ probe.fn \in {"filterText", "filterText_IndexedDB"}
  /\ probe.done
  /\ probe.again = NotRun
  /\ probe' = [probe EXCEPT
                 !.again = FilterWith(probe.fn, probe.arg, probe.result.filteredText)]
  /\ UNCHANGED hookVars

NextFilter == ApplyFilter \/ ApplyFilterAgain

SpecFilter == InitFilter /\ [][NextFilter]_vars

\* C13: when the text returned by filterText contains no active term
\* (containsExcludedTerms reports none), filtering that text again returns it
\* unchanged with an empty removedTerms list, in both versions of the service.
C13_FilterIdempotentOnClean ==
  (probe.fn \in {"filterText", "filterText_IndexedDB"} /\ probe.done /\ probe.again # NotRun) =>
    (~ContainsWith(probe.fn, probe.arg, probe.result.filteredText).hasExcludedTerms =>
       /\ probe.again.filteredText = probe.result.filteredText
       /\ probe.again.removedTerms = <<>>)

(***************************************************************************)
(* The excluded-terms list of a user: the IndexedDB service               *)
(* (ExcludedTermsService) and the hook useExcludedTerms that calls it.     *)
(* Each call of the hook runs to its end in one step.                      *)
(***************************************************************************)

\* at most this many terms in one configuration
MaxTerms == 4

\* at most this many calls of the hook in one behaviour
MaxCalls == 3

UserId == "u1"

\* `term_${Date.now()}_${Math.random()...}`
generateId(t, r) == <<"term", t, r>>

defaultExcludedTerms ==
  << [term |-> <<"e","x","p","l","i","c","i","t">>, category |-> "keyword", isActive |-> TRUE],
     [term |-> <<"v","i","o","l","e","n","c","e">>, category |-> "keyword", isActive |-> TRUE],
     [term |-> <<"h","a","t","e">>, category |-> "keyword", isActive |-> TRUE] >>

\* the configuration built for a user with nothing stored; the three ids of
\* one call are distinct
DefaultConfig(userId, t, r) ==
  ExcludedTermsConfig(userId,
    [k \in 1..Len(defaultExcludedTerms) |->
       ExcludedTerm(generateId(t, Len(defaultExcludedTerms) * r + k - 1),
                    defaultExcludedTerms[k].term, defaultExcludedTerms[k].category,
                    defaultExcludedTerms[k].isActive, t, t)],
    <<>>, TRUE, t)

\* getUserConfig: the stored record, or a fresh default that is not stored
getUserConfig(db, userId, t, r) ==
  IF db # NoConfig THEN db ELSE DefaultConfig(userId, t, r)

\* saveUserConfig: the record that store.put writes
saveUserConfig(config, t) == [config EXCEPT !.lastUpdated = t]

\* what a service call did: it returned value, or threw error; db is the store after it
Returned(value, db) == [threw |-> FALSE, error |-> "", value |-> value, db |-> db]

Threw(error, db) == [threw |-> TRUE, error |-> error, value |-> FALSE, db |-> db]

StoreError == "store request failed"

\* Partial<Pick<ExcludedTerm, 'term' | 'category' | 'isActive'>>: a key is
\* absent (<<>>) or holds one value (<<v>>)
Absent == <<>>

Updates(term, category, isActive) ==
  [term |-> term, category |-> category, isActive |-> isActive]

\* if (updates.term)
HasTermText(updates) == updates.term # Absent /\ updates.term[1] # <<>>

\* { ...term, ...updates, updatedAt: Date.now() }
ApplyUpdates(term, updates, t) ==
  [term EXCEPT !.term = IF updates.term = Absent THEN @ ELSE updates.term[1],
               !.category = IF updates.category = Absent THEN @ ELSE updates.category[1],
               !.isActive = IF updates.isActive = Absent THEN @ ELSE updates.isActive[1],
               !.updatedAt = t]

\* terms.findIndex(term => term.id === termId), 0 when there is none
IndexOfId(terms, termId) ==
  IF \E k \in 1..Len(terms) : terms[k].id = termId
  THEN CHOOSE k \in 1..Len(terms) :
         /\ terms[k].id = termId
         /\ \A j \in 1..(k - 1) : terms[j].id # termId
  ELSE 0

addExcludedTerm(db, userId, term, category, t, r, rNew, writes) ==
  LET config == getUserConfig(db, userId, t, r)
      newTerm == ExcludedTerm(generateId(t, rNew), Trim(term), category, TRUE, t, t)
  IN  IF \E k \in 1..Len(config.terms) : toLowerCase(config.terms[k].term) = toLowerCase(term)
      THEN Threw("Este termino ya esta en la lista de excluidos", db)
      ELSE IF ~writes THEN Threw(StoreError, db)
      ELSE Returned(newTerm,
                    saveUserConfig([config EXCEPT !.terms = Append(@, newTerm)], t))

removeExcludedTerm(db, userId, termId, t, r, writes) ==
  LET config == getUserConfig(db, userId, t, r)
      kept == SelectSeq(config.terms, LAMBDA term : term.id # termId)
  IN  IF Len(kept) = Len(config.terms) THEN Returned(FALSE, db)
      ELSE IF ~writes THEN Threw(StoreError, db)
      ELSE Returned(TRUE, saveUserConfig([config EXCEPT !.terms = kept], t))

updateExcludedTerm(db, userId, termId, updates, t, r, writes) ==
  LET config == getUserConfig(db, userId, t, r)
      termIndex == IndexOfId(config.terms, termId)
  IN  IF termIndex = 0 THEN Returned(FALSE, db)
      ELSE IF /\ HasTermText(updates)
              /\ \E k \in 1..Len(config.terms) :
                   /\ k # termIndex
                   /\ toLowerCase(config.terms[k].term) = toLowerCase(updates.term[1])
      THEN Threw("Ya existe un termino con ese texto", db)
      ELSE IF ~writes THEN Threw(StoreError, db)
      ELSE Returned(TRUE,
             saveUserConfig([config EXCEPT !.terms[termIndex] = ApplyUpdates(@, updates, t)], t))

\* everything outside the excluded-terms hook
chatVars_NoAuth == <<st, view, hasInitialized, reqs, loads, store, now, probe>>

chatVars == <<chatVars_NoAuth, authVars>>

Called(fn, arg, result, failed) ==
  [fn |-> fn, arg |-> arg, result |-> result, failed |-> failed, n |-> termsOp.n + 1]

\* what one call of the hook leaves behind
HookOutcome(state, db, result, failed) ==
  [state |-> state, db |-> db, result |-> result, failed |-> failed]

\* a configuration stored by an earlier visit
SavedConfig ==
  ExcludedTermsConfig(UserId,
    << ExcludedTerm(generateId(1, 0), <<"a","b">>, "keyword", TRUE, 1, 1) >>, <<>>, TRUE, 1)

NewTermTexts == { <<"a","b">>, <<"A","B">>, <<"a","b"," ">>, <<"h","a","t","e">>, <<"a">> }

TermUpdates == { Updates(<< <<"c","d">> >>, Absent, Absent),
                 Updates(<< <<"a","b">> >>, Absent, Absent),
                 Updates(Absent, <<"artist">>, Absent) }

\* the ids a caller can pass: those on screen, those stored, and one of neither
TermIds ==
  {termsState.terms[k].id : k \in 1..Len(termsState.terms)}
    \cup (IF termsDb = NoConfig THEN {}
          ELSE {termsDb.terms[k].id : k \in 1..Len(termsDb.terms)})
    \cup {generateId(0, 0)}

loadConfig ==
  \E r \in 0..MaxRand, reads \in BOOLEAN :
    /\ termsOp.n < MaxCalls
    /\ termsState' =
         IF reads
         THEN LET config == getUserConfig(termsDb, UserId, now, r)
              IN  [terms |-> config.terms, isEnabled |-> config.isEnabled,
                   isLoading |-> FALSE, error |-> ""]
         ELSE [termsState EXCEPT !.isLoading = FALSE,
                                 !.error = "Error al cargar los terminos excluidos"]
    /\ termsDb' = termsDb
    /\ termsOp' = Called("loadConfig", <<>>, reads, ~reads)
    /\ UNCHANGED chatVars

addTerm(term, category) ==
  \E r \in 0..MaxRand, rNew \in 0..MaxRand, writes \in BOOLEAN :
    LET validation == validateTerm_IndexedDB(term)
        outcome == addExcludedTerm(termsDb, UserId, term, category, now, r, rNew, writes)
    IN  /\ termsOp.n < MaxCalls
        /\ Len(termsState.terms) < MaxTerms
        /\ Len(getUserConfig(termsDb, UserId, now, r).terms) < MaxTerms
        /\ IF ~validation.isValid
           THEN /\ termsState' = [termsState EXCEPT !.error = validation.error]
                /\ termsDb' = termsDb
                /\ termsOp' = Called("addTerm", term, FALSE, FALSE)
           ELSE IF outcome.threw
           THEN /\ termsState' = [termsState EXCEPT !.error = outcome.error]
                /\ termsDb' = outcome.db
                /\ termsOp' = Called("addTerm", term, FALSE, outcome.error = StoreError)
           ELSE /\ termsState' = [termsState EXCEPT !.error = "",
                                                    !.terms = Append(@, outcome.value)]
                /\ termsDb' = outcome.db
                /\ termsOp' = Called("addTerm", term, TRUE, FALSE)
        /\ UNCHANGED chatVars

removeTerm(termId) ==
  \E r \in 0..MaxRand, writes \in BOOLEAN :
    LET outcome == removeExcludedTerm(termsDb, UserId, termId, now, r, writes)
    IN  /\ termsOp.n < MaxCalls
        /\ IF outcome.threw
           THEN termsState' = [termsState EXCEPT !.error = "Error al eliminar termino"]
           ELSE IF outcome.value
           THEN termsState' =
                  [termsState EXCEPT !.error = "",
                     !.terms = SelectSeq(@, LAMBDA term : term.id # termId)]
           ELSE termsState' = [termsState EXCEPT !.error = ""]
        /\ termsDb' = outcome.db
        /\ termsOp' = Called("removeTerm", termId, ~outcome.threw /\ outcome.value, outcome.threw)
        /\ UNCHANGED chatVars

\* the body of updateTerm, which toggleTerm calls too
UpdateOutcome(state, db, termId, updates, t, r, writes) ==
  LET validation == validateTerm_IndexedDB(updates.term[1])
      outcome == updateExcludedTerm(db, UserId, termId, updates, t, r, writes)
  IN  IF HasTermText(updates) /\ ~validation.isValid
      THEN HookOutcome([state EXCEPT !.error = validation.error], db, FALSE, FALSE)
      ELSE IF outcome.threw
      THEN HookOutcome([state EXCEPT !.error = outcome.error], outcome.db, FALSE,
                       outcome.error = StoreError)
      ELSE IF outcome.value
      THEN HookOutcome(
             [state EXCEPT !.error = "",
                !.terms = [k \in 1..Len(@) |->
                             IF @[k].id = termId THEN ApplyUpdates(@[k], updates, t)
                             ELSE @[k]]],
             outcome.db, TRUE, FALSE)
      ELSE HookOutcome([state EXCEPT !.error = ""], outcome.db, FALSE, FALSE)

updateTerm(termId, updates) ==
  \E r \in 0..MaxRand, writes \in BOOLEAN :
    LET done == UpdateOutcome(termsState, termsDb, termId, updates, now, r, writes)
    IN  /\ termsOp.n < MaxCalls
        /\ termsState' = done.state
        /\ termsDb' = done.db
        /\ termsOp' = Called("updateTerm", termId, done.result, done.failed)
        /\ UNCHANGED chatVars

toggleTerm(termId) ==
  \E r \in 0..MaxRand, writes \in BOOLEAN :
    LET k == IndexOfId(termsState.terms, termId)
        done == UpdateOutcome(termsState, termsDb, termId,
                              Updates(Absent, Absent, <<~termsState.terms[k].isActive>>),
                              now, r, writes)
    IN  /\ termsOp.n < MaxCalls
        /\ IF k = 0
           THEN /\ termsOp' = Called("toggleTerm", termId, FALSE, FALSE)
                /\ UNCHANGED <<termsState, termsDb>>
           ELSE /\ termsState' = done.state
                /\ termsDb' = done.db
                /\ termsOp' = Called("toggleTerm", termId, done.result, done.failed)
        /\ UNCHANGED chatVars

\* the loop of importTerms over the list: blank entries are skipped, an entry
\* is pushed unless a term of the configuration (those pushed before it
\* included) has its trimmed text in another case
RECURSIVE ImportLoop(_, _, _, _, _)
ImportLoop(configTerms, terms, category, t, rNew) ==
  IF terms = <<>> THEN configTerms
  ELSE LET trimmedTerm == Trim(Head(terms))
           exists == \E k \in 1..Len(configTerms) :
                       toLowerCase(configTerms[k].term) = toLowerCase(trimmedTerm)
       IN  IF trimmedTerm = <<>> \/ exists
           THEN ImportLoop(configTerms, Tail(terms), category, t, rNew)
           ELSE ImportLoop(Append(configTerms,
                                  ExcludedTerm(generateId(t, rNew + Len(configTerms)),
                                               trimmedTerm, category, TRUE, t, t)),
                           Tail(terms), category, t, rNew)

\* importTerms of the service: the number of terms imported; the
\* configuration is written only when there is one
importTerms_Service(db, userId, terms, category, t, r, rNew, writes) ==
  LET config == getUserConfig(db, userId, t, r)
      imported == ImportLoop(config.terms, terms, category, t, rNew)
      importedCount == Len(imported) - Len(config.terms)
  IN  IF importedCount = 0 THEN Returned(0, db)
      ELSE IF ~writes THEN Threw(StoreError, db)
      ELSE Returned(importedCount, saveUserConfig([config EXCEPT !.terms = imported], t))

\* toggleExcludedTerms of the service
toggleExcludedTerms(db, userId, enabled, t, r, writes) ==
  LET config == getUserConfig(db, userId, t, r)
  IN  IF ~writes THEN Threw(StoreError, db)
      ELSE Returned(TRUE, saveUserConfig([config EXCEPT !.isEnabled = enabled], t))

\* lists a user may paste: a blank entry, the stored term in another case, a
\* term twice, a one-letter term
ImportLists ==
  { << <<" ">>, <<"A","b">> >>,
    << <<"c","d">>, <<"C","D"," ">> >>,
    << <<"a">> >> }

\* importTerms of the hook, with the refreshTerms that follows the import
importTerms(termList, category) ==
  \E r \in 0..MaxRand, rNew \in 0..MaxRand, writes \in BOOLEAN, reads \in BOOLEAN :
    LET outcome == importTerms_Service(termsDb, UserId, termList, category, now, r, rNew, writes)
        config == getUserConfig(outcome.db, UserId, now, r)
    IN  /\ termsOp.n < MaxCalls
        /\ Len(getUserConfig(termsDb, UserId, now, r).terms) + Len(termList) <= MaxTerms
        /\ termsDb' = outcome.db
        /\ IF outcome.threw
           THEN /\ termsState' = [termsState EXCEPT !.error = "Error al importar terminos"]
                /\ termsOp' = Called("importTerms", termList, FALSE, TRUE)
           ELSE /\ termsState' =
                     IF reads
                     THEN [terms |-> config.terms, isEnabled |-> config.isEnabled,
                           isLoading |-> FALSE, error |-> ""]
                     ELSE [termsState EXCEPT !.isLoading = FALSE,
                             !.error = "Error al cargar los terminos excluidos"]
                /\ termsOp' = Called("importTerms", termList, outcome.value > 0, FALSE)
        /\ UNCHANGED chatVars

\* toggleFeature of the hook
toggleFeature(enabled) ==
  \E r \in 0..MaxRand, writes \in BOOLEAN :
    LET outcome == toggleExcludedTerms(termsDb, UserId, enabled, now, r, writes)
    IN  /\ termsOp.n < MaxCalls
        /\ termsDb' = outcome.db
        /\ termsState' =
             IF outcome.threw
             THEN [termsState EXCEPT !.error = "Error al cambiar el estado del filtro"]
             ELSE [termsState EXCEPT !.error = "", !.isEnabled = enabled]
        /\ termsOp' = Called("toggleFeature", <<enabled>>, ~outcome.threw, outcome.threw)
        /\ UNCHANGED chatVars

InitTerms ==
  /\ st = HookState(<<>>, FALSE, NoError, NoSid, DefaultTitle)
  /\ view = st
  /\ hasInitialized = FALSE
  /\ reqs = <<>>
  /\ loads = <<>>
  /\ store = {OldConversation}
  /\ now = 4
  /\ probe = NoProbe
  /\ termsState = [terms |-> <<>>, isEnabled |-> TRUE, isLoading |-> FALSE, error |-> ""]
  /\ termsDb \in {NoConfig, SavedConfig}
  /\ termsOp = NoOp
  /\ AuthIdle

NextTerms ==
  \/ Tick
  \/ loadConfig
  \/ \E term \in NewTermTexts : addTerm(term, "keyword")
  \/ \E termId \in TermIds : removeTerm(termId)
  \/ \E termId \in TermIds, updates \in TermUpdates : updateTerm(termId, updates)
  \/ \E termId \in TermIds : toggleTerm(termId)
  \/ \E termList \in ImportLists : importTerms(termList, "custom")
  \/ \E enabled \in BOOLEAN : toggleFeature(enabled)

SpecTerms == InitTerms /\ [][NextTerms]_vars

\* this step is a call of the hook function fn with argument arg
IsCall(fn, arg) ==
  /\ termsOp'.n # termsOp.n
  /\ termsOp'.fn = fn
  /\ termsOp'.arg = arg

\* in the list after, the term at place k is the one before with isActive
\* flipped and updatedAt set, and every other term is as it was
FlippedIn(before, after, k) ==
  /\ Len(after) = Len(before)
  /\ \A j \in 1..Len(before) :
       after[j] = IF j = k
                  THEN [before[j] EXCEPT !.isActive = ~@, !.updatedAt = now]
                  ELSE before[j]

\* C14: toggleTerm(id) on any term shown in the user's list, the default terms
\* of a user with no saved configuration included, flips that term's isActive
\* and sets its updatedAt, and leaves its text, its category and every other
\* term as they were, in the hook's list and in the persisted configuration
\* (a call whose store request failed aside).
C14_ToggleFlipsShownTerm ==
  [][\A k \in 1..Len(termsState.terms) :
       (IsCall("toggleTerm", termsState.terms[k].id) /\ ~termsOp'.failed)
         => /\ FlippedIn(termsState.terms, termsState'.terms, k)
            /\ termsDb' # NoConfig
            /\ \E j \in 1..Len(termsDb'.terms) :
                 /\ termsDb'.terms[j].id = termsState.terms[k].id
                 /\ termsDb'.terms[j].isActive = ~termsState.terms[k].isActive
                 /\ termsDb'.terms[j].updatedAt = now
                 /\ termsDb'.terms[j].term = termsState.terms[k].term
                 /\ termsDb'.terms[j].category = termsState.terms[k].category
                 /\ termsDb # NoConfig => FlippedIn(termsDb.terms, termsDb'.terms, j)]_vars

(***************************************************************************)
(* Deleting a conversation: historyService.deleteConversation over the     *)
(* gateway, and useConversationStorage.deleteConversation over IndexedDB.  *)
(* probe.remote is the set of ids the remote store holds.                  *)
(***************************************************************************)

\* BFFChatService.delete: the reply handling of post
delete(reply) ==
  IF reply.net = "throw"
  THEN [success |-> FALSE, hasData |-> FALSE, data |-> EmptyBody, error |-> "Network error"]
  ELSE IF reply.net = "notok"
  THEN [success |-> FALSE, hasData |-> FALSE, data |-> EmptyBody,
        error |-> IF reply.hasData THEN OrElse(reply.data.error, "HTTP error! status")
                  ELSE "Network error"]
  ELSE [success |-> TRUE, hasData |-> reply.hasData,
        data |-> IF reply.hasData THEN reply.data ELSE EmptyBody, error |-> ""]

\* historyService.deleteConversation: bffChatService.deleteConversation inside try/catch
deleteConversation_Remote(reply) == delete(reply)

\* what the gateway answers to DELETE api/Chat/conversation/{id}; for an id it
\* does not hold the answer is a non-2xx status, a body that is not JSON, or
\* no answer at all
DeleteReplies(found) ==
  IF found
  THEN { Reply("ok", TRUE, [EmptyBody EXCEPT !.hasStatus = TRUE, !.statusCode = 200]),
         Reply("notok", TRUE, [EmptyBody EXCEPT !.error = "Server error"]),
         Reply("throw", FALSE, EmptyBody) }
  ELSE { Reply("notok", TRUE, [EmptyBody EXCEPT !.hasStatus = TRUE, !.statusCode = 404,
                                                !.error = "Conversation not found"]),
         Reply("notok", TRUE, [EmptyBody EXCEPT !.hasStatus = TRUE, !.statusCode = 404]),
         Reply("notok", FALSE, EmptyBody),
         Reply("throw", FALSE, EmptyBody) }

\* conversationStorageService.deleteConversation: store.delete(key) succeeds
\* whether or not a record has that key; the promise rejects when the request fails
deleteConversation_Local(records, conversationId, succeeds) ==
  IF succeeds
  THEN Returned(TRUE, {x \in records : x.id # conversationId})
  ELSE Threw(StoreError, records)

\* useConversationStorage.deleteConversation: what it returns, the error it
\* sets (the list is read again from the store after a success)
deleteConversation(records, conversationId, succeeds) ==
  LET outcome == deleteConversation_Local(records, conversationId, succeeds)
  IN  IF outcome.threw
      THEN [returned |-> FALSE, error |-> "Error al eliminar la conversacion",
            records |-> outcome.db]
      ELSE [returned |-> outcome.value, error |-> "", records |-> outcome.db]

NewSid == generateSessionId(2, 1)

NewConversation == [OldConversation EXCEPT !.id = NewSid]

\* ids a history list may ask to delete; generateSessionId(3, 1) is held nowhere
DeleteIds == {OldSid, NewSid, RemoteSid, generateSessionId(3, 1)}

DeleteProbe(fn, id, existed, returned, error, remote) ==
  [fn |-> fn, arg |-> id, done |-> TRUE,
   result |-> [existed |-> existed, returned |-> returned, error |-> error],
   remote |-> remote]

InitDelete ==
  /\ st = HookState(<<>>, FALSE, NoError, NoSid, DefaultTitle)
  /\ view = st
  /\ hasInitialized = FALSE
  /\ reqs = <<>>
  /\ loads = <<>>
  /\ store \in SUBSET {OldConversation, NewConversation}
  /\ now = 4
  /\ SideIdle
  /\ probe \in {[fn |-> "none", arg |-> NoSid, done |-> FALSE,
                 result |-> [existed |-> FALSE, returned |-> FALSE, error |-> ""],
                 remote |-> ids] : ids \in SUBSET {RemoteSid, OldSid}}

DeleteLocal(id) ==
  \E succeeds \in BOOLEAN :
    LET done == deleteConversation(store, id, succeeds)
    IN  /\ store' = done.records
        /\ probe' = DeleteProbe("local", id, Get(store, id) # {}, done.returned, done.error,
                                probe.remote)
        /\ UNCHANGED <<st, view, hasInitialized, reqs, loads, now, sideVars>>

DeleteRemote(id) ==
  \E reply \in DeleteReplies(id \in probe.remote) :
    LET response == deleteConversation_Remote(reply)
    IN  /\ probe' = DeleteProbe("remote", id, id \in probe.remote, response.success,
                                response.error,
                                IF reply.net = "ok" THEN probe.remote \ {id} ELSE probe.remote)
        /\ UNCHANGED <<st, view, hasInitialized, reqs, loads, store, now, sideVars>>

NextDelete ==
  \/ \E id \in DeleteIds : DeleteLocal(id)
  \/ \E id \in DeleteIds : DeleteRemote(id)

SpecDelete == InitDelete /\ [][NextDelete]_vars

\* C15: deleting a conversation id that does not exist returns a failure
\* result (success = false on the remote path, false on the local path); no
\* path throws (every call of the model returns a result).
C15_DeleteMissingFails ==
  (probe.done /\ ~probe.result.existed) => ~probe.result.returned

(***************************************************************************)
(* Authentication: firebaseAuthService, the hook useAuth and the event     *)
(* handlers of the presentation layer that call it.                        *)
(***************************************************************************)

\* the accounts of the model
AuthUsers == {"u1", "u2", "u3"}

\* how signInWithEmailAndPassword can end: the user, or an error code
SignInOutcomes ==
  {"ok", "auth/wrong-password", "auth/user-not-found", "auth/network-request-failed"}

\* how createUserWithEmailAndPassword can end
RegisterOutcomes == {"ok", "auth/email-already-in-use", "auth/weak-password"}

\* how signInWithPopup can end
PopupOutcomes == {"ok", "auth/popup-closed-by-user", "auth/cancelled-popup-request"}

\* how signOut can end
SignOutOutcomes == {"ok", "auth/network-request-failed"}

\* handleAuthError: known codes get a message, others keep error.message
handleAuthError(code) ==
  IF code = "auth/user-not-found" THEN "No se encontro una cuenta con este email"
  ELSE IF code = "auth/wrong-password" THEN "Contrasena incorrecta"
  ELSE IF code = "auth/email-already-in-use" THEN "Ya existe una cuenta con este email"
  ELSE IF code = "auth/weak-password" THEN "La contrasena debe tener al menos 6 caracteres"
  ELSE IF code = "auth/popup-closed-by-user" THEN "La ventana de autenticacion fue cerrada"
  ELSE IF code = "auth/cancelled-popup-request" THEN "Solicitud de autenticacion cancelada"
  ELSE code

\* firebaseAuthService.loginWithEmail: every failure becomes {success: false, error}
loginWithEmail(user, outcome) ==
  IF outcome = "ok" THEN [success |-> TRUE, user |-> user, error |-> ""]
  ELSE [success |-> FALSE, user |-> NoUser, error |-> handleAuthError(outcome)]

\* firebaseAuthService.registerWithEmail
registerWithEmail(user, outcome) ==
  IF outcome = "ok" THEN [success |-> TRUE, user |-> user, error |-> ""]
  ELSE [success |-> FALSE, user |-> NoUser, error |-> handleAuthError(outcome)]

\* firebaseAuthService.loginWithGoogle
loginWithGoogle_Service(user, outcome) ==
  IF outcome = "ok" THEN [success |-> TRUE, user |-> user, error |-> ""]
  ELSE [success |-> FALSE, user |-> NoUser, error |-> handleAuthError(outcome)]

\* firebaseAuthService.logout: logs and rethrows
logout_Service(outcome) == [threw |-> outcome # "ok", error |-> outcome]

\* useAuth.logout: sets the error and rethrows
logout(state, outcome) ==
  LET done == logout_Service(outcome)
  IN  IF done.threw
      THEN [state |-> [state EXCEPT !.error = done.error], threw |-> TRUE]
      ELSE [state |-> [state EXCEPT !.error = ""], threw |-> FALSE]

\* onAuthStateChange listener of useAuth
onAuthStateChange ==
  /\ authState.user # authUser \/ authState.isLoading
  /\ authState' = [authState EXCEPT !.user = authUser, !.isLoading = FALSE]
  /\ UNCHANGED <<authUser, authOp, chatVars_NoAuth, termsVars>>

\* useAuth.login, called from the login form
login ==
  \E user \in AuthUsers, outcome \in SignInOutcomes :
    LET response == loginWithEmail(user, outcome)
    IN  /\ authState.user = NoUser
        /\ authState' =
             IF response.success
             THEN [authState EXCEPT !.isLoading = TRUE, !.error = ""]
             ELSE [authState EXCEPT !.isLoading = FALSE,
                                    !.error = OrElse(response.error, "Error en el login")]
        /\ authUser' = IF response.success THEN response.user ELSE authUser
        /\ authOp' = [fn |-> "login", uncaught |-> FALSE]
        /\ UNCHANGED <<chatVars_NoAuth, termsVars>>

\* useAuth.register, called from the registration form
register ==
  \E user \in AuthUsers, outcome \in RegisterOutcomes :
    LET response == registerWithEmail(user, outcome)
    IN  /\ authState.user = NoUser
        /\ authState' =
             IF response.success
             THEN [authState EXCEPT !.isLoading = TRUE, !.error = ""]
             ELSE [authState EXCEPT !.isLoading = FALSE,
                                    !.error = OrElse(response.error, "Error en el registro")]
        /\ authUser' = IF response.success THEN response.user ELSE authUser
        /\ authOp' = [fn |-> "register", uncaught |-> FALSE]
        /\ UNCHANGED <<chatVars_NoAuth, termsVars>>

\* useAuth.loginWithGoogle
loginWithGoogle ==
  \E user \in AuthUsers, outcome \in PopupOutcomes :
    LET response == loginWithGoogle_Service(user, outcome)
    IN  /\ authState.user = NoUser
        /\ authState' =
             IF response.success
             THEN [authState EXCEPT !.isLoading = TRUE, !.error = ""]
             ELSE [authState EXCEPT !.isLoading = FALSE,
                      !.error = OrElse(response.error, "Error en el login con Google")]
        /\ authUser' = IF response.success THEN response.user ELSE authUser
        /\ authOp' = [fn |-> "loginWithGoogle", uncaught |-> FALSE]
        /\ UNCHANGED <<chatVars_NoAuth, termsVars>>

\* App: <Button onClick={logout}>
LogoutButton ==
  \E outcome \in SignOutOutcomes :
    LET done == logout(authState, outcome)
    IN  /\ authState.user # NoUser
        /\ authState' = done.state
        /\ authUser' = IF done.threw THEN authUser ELSE NoUser
        /\ authOp' = [fn |-> "App.logout", uncaught |-> done.threw]
        /\ UNCHANGED <<chatVars_NoAuth, termsVars>>

\* UserSessionManager.handleLogoutAllDevices: await logout() inside try/catch
handleLogoutAllDevices ==
  \E outcome \in SignOutOutcomes :
    LET done == logout(authState, outcome)
    IN  /\ authState.user # NoUser
        /\ authState' = done.state
        /\ authUser' = IF done.threw THEN authUser ELSE NoUser
        /\ authOp' = [fn |-> "handleLogoutAllDevices", uncaught |-> FALSE]
        /\ UNCHANGED <<chatVars_NoAuth, termsVars>>

clearError ==
  /\ authState' = [authState EXCEPT !.error = ""]
  /\ authOp' = [fn |-> "clearError", uncaught |-> FALSE]
  /\ UNCHANGED <<authUser, chatVars_NoAuth, termsVars>>

InitAuth ==
  /\ st = HookState(<<>>, FALSE, NoError, NoSid, DefaultTitle)
  /\ view = st
  /\ hasInitialized = FALSE
  /\ reqs = <<>>
  /\ loads = <<>>
  /\ store = {OldConversation}
  /\ now = 4
  /\ probe = NoProbe
  /\ TermsIdle
  /\ authState = [user |-> NoUser, isLoading |-> TRUE, error |-> ""]
  /\ authUser \in {NoUser} \cup AuthUsers
  /\ authOp = NoAuthOp

NextAuth ==
  \/ onAuthStateChange
  \/ login
  \/ register
  \/ loginWithGoogle
  \/ LogoutButton
  \/ handleLogoutAllDevices
  \/ clearError

SpecAuth == InitAuth /\ [][NextAuth]_vars

\* C16: no exception or rejected promise of a service call reaches an event
\* handler of the presentation layer uncaught, logout included: every handler
\* ends with a result or a hook error state.
C16_NothingUncaught == ~authOp.uncaught

\* exchange x carries the first user message of a new session: it was sent
\* from a list holding only the welcome message while the title was the default
FirstExchange(x) == Len(x.withPh) = 3 /\ x.cTitle = DefaultTitle

\* C17: when the first user message of a new session is sent, the session
\* title becomes the title generated from that message, and the session record
\* persisted when that exchange completes carries the generated title, not the
\* default 'Nueva Conversacion'.
C17_FirstExchangePersistsTitle ==
  \A i \in 1..Len(reqs) :
    FirstExchange(reqs[i]) =>
      /\ (reqs[i].phase = "await" /\ st.messages = reqs[i].withPh) =>
           st.sessionTitle = generateSessionTitle(reqs[i].text)
      /\ reqs[i].session # NoSession =>
           reqs[i].session.title = generateSessionTitle(reqs[i].text)

\* C18: every accepted send causes exactly one request to the question
\* endpoint of the gateway: neither the completion of the exchange, its
\* persistence included, nor its failure issues another.
C18_OneRequestPerSend ==
  \A i \in 1..Len(reqs) : reqs[i].calls = 1

(***************************************************************************)
(* The reveal loop of the simulated stream, for one reply R on a list that *)
(* holds the placeholder: sendMessageStreamSimulated (chunks of            *)
(* splitIntoNaturalChunks) and the earlier sendMessageStream (words).      *)
(***************************************************************************)

\* replies of up to this many characters, besides the long ones
MaxReplyLen == 5

\* fullResponse.split(' ')
RECURSIVE SplitWords(_)
SplitWords(text) ==
  IF \E k \in 1..Len(text) : IsSpace(text[k])
  THEN LET k == CHOOSE k \in 1..Len(text) :
                  IsSpace(text[k]) /\ \A j \in 1..(k - 1) : ~IsSpace(text[j])
       IN  <<SubSeq(text, 1, k - 1)>> \o SplitWords(SubSeq(text, k + 1, Len(text)))
  ELSE <<text>>

\* what sendMessageStream adds to accumulatedText at each turn of its loop
WordChunks(text) ==
  LET words == SplitWords(text)
  IN  [i \in 1..Len(words) |-> IF i > 1 THEN <<" ">> \o words[i] ELSE words[i]]

\* the pieces the loop of the variant fn adds one by one
StreamChunks(fn, fullResponse) ==
  IF fn = "sendMessageStreamSimulated" THEN splitIntoNaturalChunks(fullResponse)
  ELSE WordChunks(fullResponse)

RECURSIVE Concat(_)
Concat(chunks) == IF chunks = <<>> THEN <<>> ELSE Head(chunks) \o Concat(Tail(chunks))

RECURSIVE ReplyTextsOfLen(_)
ReplyTextsOfLen(n) ==
  IF n = 0 THEN {<<>>}
  ELSE {Append(t, c) : t \in ReplyTextsOfLen(n - 1), c \in {"a", ".", " "}}

\* a word longer than the chunk limit, and as many spaces
LongWord == [k \in 1..(ChunkLimit + 1) |-> "a"]

LongBlank == [k \in 1..(ChunkLimit + 1) |-> " "]

LongReplies ==
  { LongWord \o <<".", " ", "a">>,
    LongWord \o <<" ", "a", " ">>,
    <<"a", ".", " ">> \o LongWord \o <<".", " ", " ", "a", " ">>,
    LongBlank \o <<".", " ", "a">>,
    <<"a">> \o LongBlank,
    FallbackAnswer }

\* the replies streamed: the simulated stream only gets a non-blank
\* fullResponse, the word stream gets response.data.response as it is
StreamReplies(fn) ==
  LET all == UNION {ReplyTextsOfLen(n) : n \in 0..MaxReplyLen} \cup LongReplies
  IN  IF fn = "sendMessageStreamSimulated" THEN {t \in all : NonBlank(t)} ELSE all

PlaceholderId == <<1, "ai">>

\* the hook state the callbacks of the stream act on
StreamList ==
  HookState(<< Message(<<1, "user">>, "user", <<"q">>, 1, NoSid),
               Message(PlaceholderId, "ai", <<>>, 1, NoSid) >>,
            TRUE, NoError, NoSid, DefaultTitle)

InitStream ==
  /\ st = HookState(<<>>, FALSE, NoError, NoSid, DefaultTitle)
  /\ view = st
  /\ hasInitialized = FALSE
  /\ reqs = <<>>
  /\ loads = <<>>
  /\ store = {OldConversation}
  /\ now = 4
  /\ SideIdle
  /\ probe \in UNION {
       {[fn |-> fn, arg |-> fullResponse, done |-> FALSE,
         result |-> [chunks |-> StreamChunks(fn, fullResponse), delivered |-> 0,
                     accumulatedText |-> <<>>, previous |-> <<>>,
                     hook |-> StreamList]] : fullResponse \in StreamReplies(fn)} :
       fn \in {"sendMessageStreamSimulated", "sendMessageStream"}}

\* one turn of the loop: accumulatedText += chunk; onChunk(accumulatedText)
StreamChunk ==
  /\ ~probe.done
  /\ probe.result.chunks # <<>>
  /\ LET accumulatedText == probe.result.accumulatedText \o Head(probe.result.chunks)
     IN  probe' = [probe EXCEPT
                     !.result = [chunks |-> Tail(probe.result.chunks),
                                 delivered |-> probe.result.delivered + 1,
                                 accumulatedText |-> accumulatedText,
                                 previous |-> probe.result.accumulatedText,
                                 hook |-> onChunk(probe.result.hook, PlaceholderId,
                                                  accumulatedText)]]
  /\ UNCHANGED hookVars

\* onComplete(fullResponse, newSessionId) after the last chunk
StreamComplete ==
  /\ ~probe.done
  /\ probe.result.chunks = <<>>
  /\ probe' = [probe EXCEPT !.done = TRUE,
                            !.result.hook = onComplete(probe.result.hook, NoSid)]
  /\ UNCHANGED hookVars

NextStream == StreamChunk \/ StreamComplete

SpecStream == InitStream /\ [][NextStream]_vars

\* the text the list shows for the placeholder
PlaceholderText(s) ==
  LET k == CHOOSE k \in 1..Len(s.messages) : s.messages[k].id = PlaceholderId
  IN  s.messages[k].text

\* C19: during the simulated streaming of a reply R every onChunk delivers a
\* prefix of R, strictly longer than the one delivered before it; the chunks
\* still to come complete it to R; the last text delivered before onComplete
\* is R, and so is the text the placeholder shows at the end.
C19_ChunksArePrefixesOfReply ==
  /\ IsPrefix(probe.result.accumulatedText, probe.arg)
  /\ probe.result.accumulatedText \o Concat(probe.result.chunks) = probe.arg
  /\ probe.result.delivered >= 2 =>
       Len(probe.result.accumulatedText) > Len(probe.result.previous)
  /\ probe.result.delivered >= 1 =>
       PlaceholderText(probe.result.hook) = probe.result.accumulatedText
  /\ probe.done =>
       /\ probe.result.delivered >= 1
       /\ probe.result.accumulatedText = probe.arg
       /\ PlaceholderText(probe.result.hook) = probe.arg

\* a reply longer than the chunk limit was streamed in several chunks to its end
C19_Witness ==
  /\ probe.fn = "sendMessageStreamSimulated"
  /\ probe.done
  /\ probe.result.delivered >= 3
  /\ Len(probe.arg) > ChunkLimit
  /\ PlaceholderText(probe.result.hook) = probe.arg

\* this step is a send, or a chunk, completion or failure of an exchange other than i
OtherExchangeStep(i) ==
  \/ SendStep
  \/ \E j \in 1..Len(reqs) : j # i /\ reqs'[j] # reqs[j]

\* the placeholder of exchange j is the only message of its list with that id
PlaceholderIdFresh(j) ==
  \A k \in 1..(Len(reqs[j].withPh) - 1) : reqs[j].withPh[k].id # reqs[j].phId

\* C20: once an exchange is terminal (onComplete or onError delivered), the
\* text of its AI message in the list is not changed by any later send, chunk,
\* completion or failure of another exchange; and no two exchanges of one list
\* have the same placeholder id.
C20_TerminalTextStable ==
  /\ [](\A j \in 1..Len(reqs) : PlaceholderIdFresh(j))
  /\ [][\A i \in 1..Len(reqs) :
          (Terminal(i) /\ OtherExchangeStep(i)) =>
            \A k \in 1..Len(st.messages) :
              st.messages[k].id = reqs[i].phId =>
                /\ k <= Len(st'.messages)
                /\ st'.messages[k].text = st.messages[k].text]_vars

(***************************************************************************)
(* The local conversation store on its own: saveConversation and           *)
(* toggleStar of useConversationStorage over the records of IndexedDB.     *)
(* The tags of a record are a function of its messages and are not kept.   *)
(* probe.result holds, per id, the title and messages of the last save     *)
(* that succeeded.                                                         *)
(***************************************************************************)

\* a text longer than the preview
LongText == [k \in 1..(PreviewLen + 1) |-> IF k <= PreviewLen THEN "x" ELSE "y"]

\* sessions a completed exchange may hand to saveConversation
SaveMessages(id) ==
  { <<>>,
    OldMessages,
    << Message(<<2, "user">>, "user", <<"p", "o", "p">>, 2, id),
       Message(<<3, "ai">>, "ai", LongText, 3, id) >> }

SaveInputs ==
  UNION { { ChatSession(id, id, title, 1, updatedAt, messages) :
              title \in {DefaultTitle, <<"r", "o", "c", "k">>},
              updatedAt \in {0, 3},
              messages \in SaveMessages(id) } :
          id \in {OldSid, NewSid} }

\* conversationStorageService.toggleConversationStar with updateConversationMetadata:
\* the new starred status, false when the record is missing; the put may fail
toggleConversationStar(records, conversationId, t, succeeds) ==
  IF Get(records, conversationId) = {} THEN Returned(FALSE, records)
  ELSE LET conversation == CHOOSE x \in Get(records, conversationId) : TRUE
           newStarredStatus == ~conversation.starred
       IN  IF ~succeeds THEN Threw(StoreError, records)
           ELSE Returned(newStarredStatus,
                  Put(records, [conversation EXCEPT !.starred = newStarredStatus,
                                                    !.updatedAt = t]))

LastSaved(conversation) ==
  [id |-> conversation.id, title |-> conversation.title, messages |-> conversation.messages]

InitStore ==
  /\ st = HookState(<<>>, FALSE, NoError, NoSid, DefaultTitle)
  /\ view = st
  /\ hasInitialized = FALSE
  /\ reqs = <<>>
  /\ loads = <<>>
  /\ store \in {{}, {OldConversation}}
  /\ now = 4
  /\ SideIdle
  /\ probe = [fn |-> "none", arg |-> NoSid, done |-> FALSE, result |-> {}]

\* useConversationStorage.saveConversation
SaveConversation(conversation) ==
  \E succeeds \in BOOLEAN :
    /\ store' = saveConversation(store, conversation, succeeds)
    /\ probe' = [fn |-> "saveConversation", arg |-> conversation.id, done |-> succeeds,
                 result |-> IF succeeds
                            THEN {s \in probe.result : s.id # conversation.id}
                                   \cup {LastSaved(conversation)}
                            ELSE probe.result]
    /\ UNCHANGED <<st, view, hasInitialized, reqs, loads, now, sideVars>>

\* useConversationStorage.toggleStar
toggleStar(conversationId) ==
  \E succeeds \in BOOLEAN :
    LET outcome == toggleConversationStar(store, conversationId, now, succeeds)
    IN  /\ store' = outcome.db
        /\ probe' = [probe EXCEPT !.fn = "toggleStar", !.arg = conversationId,
                                  !.done = ~outcome.threw /\ outcome.value]
        /\ UNCHANGED <<st, view, hasInitialized, reqs, loads, now, sideVars>>

NextStore ==
  \/ Tick
  \/ \E conversation \in SaveInputs : SaveConversation(conversation)
  \/ \E conversationId \in {OldSid, NewSid, RemoteSid} : toggleStar(conversationId)

SpecStore == InitStore /\ [][NextStore]_vars

\* C21: after any sequence of saveConversation calls the store holds at most
\* one record per conversation id; the record of an id has the title and the
\* messages of the most recent save of that id, messageCount equal to the
\* number of its messages and lastMessagePreview equal to the first 100
\* characters of its last message's text (empty without messages).
C21_OneRecordPerIdLatestSave ==
  /\ \A x \in store : \A y \in store : x.id = y.id => x = y
  /\ \A s \in probe.result :
       \E x \in store : x.id = s.id /\ x.title = s.title /\ x.messages = s.messages
  /\ \A x \in store :
       /\ x.messageCount = Len(x.messages)
       /\ x.lastMessagePreview =
            IF Len(x.messages) = 0 THEN <<>>
            ELSE LET text == x.messages[Len(x.messages)].text
                 IN  IF Len(text) <= 100 THEN text ELSE SubSeq(text, 1, 100)

\* an id saved again with other messages, the last longer than the preview
C21_Witness ==
  /\ probe.fn = "saveConversation"
  /\ probe.done
  /\ probe.arg = OldSid
  /\ \E x \in store :
       /\ x.id = OldSid
       /\ x.messages # OldMessages
       /\ Len(x.messages) > 0
       /\ Len(x.messages[Len(x.messages)].text) > 100
       /\ Len(x.lastMessagePreview) = 100
  /\ \E y \in store : y.id = NewSid /\ y.messages = <<>>

\* C22: saveConversation on a stored conversation rewrites the payload and the
\* derived metadata only: a starred flag set by toggleStar is still set once
\* the conversation has been saved again.
C22_SaveKeepsStar ==
  [][\A x \in store :
       (x.starred /\ probe'.fn = "saveConversation" /\ probe'.arg = x.id
          /\ probe'.done /\ store' # store)
         => \E y \in store' : y.id = x.id /\ y.starred]_vars

\* load j has found nothing locally and is waiting for the remote store
LoadMissedLocally(j) ==
  j \in 1..Len(loads) /\ loads[j].phase = "remote" /\ loads[j].local \in {"missing", "error"}

\* this step ends load j without a conversation: the remote call failed or
\* carried no data
LoadFailStep(j) ==
  LoadMissedLocally(j) /\ loads'[j].phase = "done"

\* this step is the local miss of a load
LoadMissStep(j) ==
  j \in 1..Len(loads) /\ loads[j].phase = "local" /\ loads'[j].phase = "remote"

SameSession(s, t) ==
  /\ s.messages = t.messages
  /\ s.sessionTitle = t.sessionTitle
  /\ s.currentSessionId = t.currentSessionId

\* C23: when loadConversation(id) finds the conversation neither in the local
\* store nor remotely (or the remote call fails), the steps of that load leave
\* the messages, the title and the current session id of the active session
\* unchanged, error is non-empty and isLoading is false when it ends.
C23_FailedLoadKeepsSession ==
  [][/\ Len(loads') > Len(loads) => SameSession(st, st')
     /\ \A j \in 1..Len(loads) :
       /\ LoadMissStep(j) => SameSession(st, st')
       /\ LoadFailStep(j) =>
            /\ SameSession(st, st')
            /\ st'.error # NoError
            /\ ~st'.isLoading]_vars

\* a load of an id held nowhere has ended on a session with a user message
C23_Witness ==
  \E j \in 1..Len(loads) :
    /\ loads[j].phase = "done"
    /\ loads[j].local = "missing"
    /\ loads[j].conv = NoSession
    /\ st.error = "Error al cargar la conversacion"
    /\ ~st.isLoading
    /\ Len(st.messages) > 1

\* C24: in every reachable state, under any interleaving of sendMessage,
\* startNewChat, loadConversation and gateway resolutions, at most one gateway
\* request issued by a send is unresolved: no send is accepted while the
\* request of an earlier send is in flight.
C24_OneRequestInFlight ==
  \A i \in 1..Len(reqs) : \A j \in 1..Len(reqs) :
    (InFlight(i) /\ InFlight(j)) => i = j

\* the list shown no longer holds the placeholder of exchange i: a new chat or
\* a loaded conversation has replaced the session the exchange was sent from
Superseded(i) ==
  /\ Pending(i)
  /\ \A k \in 1..Len(st.messages) : st.messages[k].id # reqs[i].phId

\* this step delivered a chunk, the completion or the failure of exchange i
ResolutionStep(i) == Pending(i) /\ reqs'[i] # reqs[i]

\* C25: when startNewChat or loadConversation has taken effect while a gateway
\* request was in flight, the later resolution of that request (its chunks,
\* its completion or its failure) leaves the messages and the current session
\* id of the new active session unchanged.
C25_LateResolutionKeepsNewSession ==
  [][\A i \in 1..Len(reqs) :
       (Superseded(i) /\ ResolutionStep(i)) =>
         /\ st'.messages = st.messages
         /\ st'.currentSessionId = st.currentSessionId]_vars

\* the messages alone are left unchanged by a late resolution
C25_LateResolutionKeepsMessages ==
  [][\A i \in 1..Len(reqs) :
       (Superseded(i) /\ ResolutionStep(i)) => st'.messages = st.messages]_vars

\* the terms of the persisted configuration, none when nothing is stored
PersistedTerms == IF termsDb = NoConfig THEN <<>> ELSE termsDb.terms

SameTermText(a, b) == toLowerCase(Trim(a)) = toLowerCase(Trim(b))

NoDuplicateTerms(terms) ==
  \A j \in 1..Len(terms) : \A k \in 1..Len(terms) :
    SameTermText(terms[j].term, terms[k].term) => j = k

\* this step is an addTerm or updateTerm that the service rejected as a duplicate
RejectedAsDuplicate ==
  /\ termsOp'.n # termsOp.n
  /\ termsOp'.fn \in {"addTerm", "updateTerm"}
  /\ termsState'.error \in {"Este termino ya esta en la lista de excluidos",
                            "Ya existe un termino con ese texto"}

\* C26: after any sequence of addTerm, updateTerm, importTerms and removeTerm
\* no two terms of the persisted list are equal without regard to case after
\* trimming; an add or update that would create a duplicate is rejected and
\* leaves the list unchanged.
C26_NoDuplicateTerms ==
  /\ [](NoDuplicateTerms(PersistedTerms))
  /\ [][RejectedAsDuplicate => termsDb' = termsDb]_vars

\* a rejected duplicate leaves the persisted list as it was
C26_RejectionKeepsList ==
  [][RejectedAsDuplicate => termsDb' = termsDb]_vars

\* C27: every term the hook lets into the list satisfies validateTerm, after
\* addTerm, updateTerm and importTerms alike; an invalid term leaves the list
\* unchanged, sets error and causes no write.
C27_ListedTermsAreValid ==
  /\ \A k \in 1..Len(PersistedTerms) : validateTerm_IndexedDB(PersistedTerms[k].term).isValid
  /\ \A k \in 1..Len(termsState.terms) :
       validateTerm_IndexedDB(termsState.terms[k].term).isValid

\* an addTerm with an invalid term sets error and writes nothing
C27_InvalidAddRejected ==
  [][\A term \in NewTermTexts :
       (IsCall("addTerm", term) /\ ~validateTerm_IndexedDB(term).isValid) =>
         /\ termsDb' = termsDb
         /\ termsState'.terms = termsState.terms
         /\ termsState'.error # ""]_vars

\* the texts of the active terms of a filter input, as the version fn sees them
ActiveTermTexts(fn, arg) ==
  IF fn = "filterText"
  THEN {t.term : t \in {ActiveTerms(arg.terms)[k] : k \in 1..Len(ActiveTerms(arg.terms))}}
  ELSE {getActiveExcludedTerms(FilterConfig(arg))[k] :
          k \in 1..Len(getActiveExcludedTerms(FilterConfig(arg)))}

FilterRan == probe.fn \in {"filterText", "filterText_IndexedDB"} /\ probe.done

\* the text returned holds no active term
C28_FilteredTextIsClean ==
  FilterRan => ~ContainsWith(probe.fn, probe.arg, probe.result.filteredText).hasExcludedTerms

\* the terms reported removed are active terms that occurred in the input
C28_RemovedTermsOccurred ==
  FilterRan =>
    \A k \in 1..Len(probe.result.removedTerms) :
      /\ probe.result.removedTerms[k] \in ActiveTermTexts(probe.fn, probe.arg)
      /\ Includes(toLowerCase(probe.arg.text), toLowerCase(probe.result.removedTerms[k]))

\* C28: for every text and every list of terms, the filteredText returned by
\* filterText contains no active excluded term (containsExcludedTerms reports
\* none on it), and removedTerms lists only active terms that occurred in the
\* input without regard to case.
C28_FilterRemovesActiveTerms ==
  C28_FilteredTextIsClean /\ C28_RemovedTermsOccurred

(***************************************************************************)
(* filterText and containsExcludedTerms as the hooks expose them, with the *)
(* feature switched by toggleFeature: useExcludedTerms over the IndexedDB  *)
(* service, and the variant of the hook over the backend service.          *)
(* probe.fn names the service the hook is built on; termsState is the      *)
(* hook's state and termsDb the configuration the service reads.           *)
(***************************************************************************)

\* texts of up to this many characters are filtered through the hooks
MaxHookTextLen == 3

\* filterText of useExcludedTerms: if (!user?.id || !isEnabled) return the text
filterText_Hook(isEnabled, config, text) ==
  IF ~isEnabled THEN [filteredText |-> text, removedTerms |-> <<>>]
  ELSE filterText_IndexedDB(config, text)

\* containsExcludedTerms of useExcludedTerms
containsExcludedTerms_Hook(isEnabled, config, text) ==
  IF ~isEnabled THEN [hasExcludedTerms |-> FALSE, foundTerms |-> <<>>]
  ELSE containsExcludedTerms_IndexedDB(config, text)

\* filterText of the hook over the backend service: isEnabled is not read
filterText_BackendHook(isEnabled, config, text) == filterText(config.terms, text)

\* containsExcludedTerms of the hook over the backend service
containsExcludedTerms_BackendHook(isEnabled, config, text) ==
  containsExcludedTerms(config.terms, text)

HookNotRun ==
  [filtered |-> NotRun, filteredWhile |-> <<>>,
   contains |-> [hasExcludedTerms |-> FALSE, foundTerms |-> <<>>], containsWhile |-> <<>>]

InitHookFilter ==
  /\ st = HookState(<<>>, FALSE, NoError, NoSid, DefaultTitle)
  /\ view = st
  /\ hasInitialized = FALSE
  /\ reqs = <<>>
  /\ loads = <<>>
  /\ store = {OldConversation}
  /\ now = 4
  /\ AuthIdle
  /\ termsOp = NoOp
  /\ \E l \in FilterTermLists :
       /\ termsDb = ExcludedTermsConfig(UserId, l, <<>>, TRUE, 1)
       /\ termsState = [terms |-> l, isEnabled |-> TRUE, isLoading |-> FALSE, error |-> ""]
  /\ probe \in {[fn |-> f, arg |-> t, done |-> FALSE, result |-> HookNotRun] :
                  f \in {"filterText", "filterText_IndexedDB"},
                  t \in {t \in FilterTexts : Len(t) <= MaxHookTextLen}}

\* toggleFeature of the hook over the backend service: setIsEnabled only
toggleFeature_BackendHook(enabled) ==
  /\ termsOp.n < MaxCalls
  /\ termsState' = [termsState EXCEPT !.isEnabled = enabled]
  /\ termsDb' = termsDb
  /\ termsOp' = Called("toggleFeature", <<enabled>>, TRUE, FALSE)
  /\ UNCHANGED chatVars

\* the component calls filterText of its hook
HookFilterText ==
  /\ probe.result.filteredWhile = <<>>
  /\ probe' = [probe EXCEPT
       !.result.filtered =
          IF probe.fn = "filterText"
          THEN filterText_BackendHook(termsState.isEnabled, termsDb, probe.arg)
          ELSE filterText_Hook(termsState.isEnabled, termsDb, probe.arg),
       !.result.filteredWhile = <<termsState.isEnabled>>]
  /\ UNCHANGED hookVars

\* the component calls containsExcludedTerms of its hook
HookContains ==
  /\ probe.result.containsWhile = <<>>
  /\ probe' = [probe EXCEPT
       !.result.contains =
          IF probe.fn = "filterText"
          THEN containsExcludedTerms_BackendHook(termsState.isEnabled, termsDb, probe.arg)
          ELSE containsExcludedTerms_Hook(termsState.isEnabled, termsDb, probe.arg),
       !.result.containsWhile = <<termsState.isEnabled>>]
  /\ UNCHANGED hookVars

NextHookFilter ==
  \/ \E enabled \in BOOLEAN : probe.fn = "filterText" /\ toggleFeature_BackendHook(enabled)
  \/ \E enabled \in BOOLEAN : probe.fn = "filterText_IndexedDB" /\ toggleFeature(enabled)
  \/ HookFilterText
  \/ HookContains

SpecHookFilter == InitHookFilter /\ [][NextHookFilter]_vars

\* C29: while the feature is disabled (after toggleFeature(false)) filterText
\* of the hook returns its input unchanged with an empty removedTerms, and
\* containsExcludedTerms of the hook reports no terms.
C29_DisabledFilterIsIdentity ==
  /\ probe.result.filteredWhile = <<FALSE>> =>
       /\ probe.result.filtered.filteredText = probe.arg
       /\ probe.result.filtered.removedTerms = <<>>
  /\ probe.result.containsWhile = <<FALSE>> =>
       /\ ~probe.result.contains.hasExcludedTerms
       /\ probe.result.contains.foundTerms = <<>>

\* the same, of the hook over the IndexedDB service alone
C29_DisabledFilterIsIdentity_IndexedDB ==
  probe.fn = "filterText_IndexedDB" => C29_DisabledFilterIsIdentity

(***************************************************************************)
(* sendMessageStream as a whole: the dispatch on useRealStreaming, the     *)
(* reader loop of sendMessageStreamReal over the server-sent events, its   *)
(* fallback, and sendMessageStreamSimulated.  The source sets              *)
(* useRealStreaming to false; both values are explored, so the reader loop *)
(* is checked as the code that runs once the flag is turned.               *)
(* probe.result.log is the sequence of callbacks invoked so far.           *)
(***************************************************************************)

\* at most this many server-sent events in one response body
MaxEvents == 3

\* what one `data: ` line can be: a chunk with content, a chunk without, a
\* session id, the completion, an error, a line that is not JSON; "readfail"
\* stands for reader.read() rejecting
SseEventKinds == {"chunk", "blank", "session", "complete", "error", "garbage", "readfail"}

RECURSIVE SseScripts(_)
SseScripts(n) ==
  IF n = 0 THEN {<<>>}
  ELSE {Append(s, e) : s \in SseScripts(n - 1), e \in SseEventKinds}

\* how the fetch of the streaming endpoint ends: it rejects, answers with a
\* status that is not ok, answers without a body, or answers with a stream
FetchOutcomes == {"throw", "notok", "nobody", "ok"}

Callback(fn, text, sessionId) == [fn |-> fn, text |-> text, sessionId |-> sessionId]

StreamState(phase, events, chunks, accumulatedText, fullResponse, sessionId, log) ==
  [phase |-> phase, events |-> events, chunks |-> chunks,
   accumulatedText |-> accumulatedText, fullResponse |-> fullResponse,
   sessionId |-> sessionId, log |-> log]

\* variant: an 'error' event is reported to onError and the loop goes on
handleSseData_Mut(s, event) ==
  LET rest == [s EXCEPT !.events = Tail(s.events)]
  IN  CASE event = "chunk" ->
             LET accumulatedText == s.accumulatedText \o <<"a">>
             IN  [rest EXCEPT !.accumulatedText = accumulatedText,
                              !.log = Append(@, Callback("onChunk", accumulatedText, NoSid))]
        [] event = "session" -> [rest EXCEPT !.sessionId = ServerSid(1)]
        [] event = "complete" ->
             [rest EXCEPT !.phase = "returned",
                          !.log = Append(@, Callback("onComplete", s.accumulatedText,
                                                     s.sessionId))]
        [] event = "error" ->
             [rest EXCEPT !.log = Append(@, Callback("onError", <<>>, NoSid))]
        [] OTHER -> rest

\* the body of the loop over the lines of one read: a chunk with content is
\* accumulated and delivered, a session event sets returnedSessionId, the
\* complete event calls onComplete and returns; the Error thrown for an
\* 'error' event and the one of JSON.parse are caught by the catch around the
\* line (console.warn) and the loop goes on
handleSseData(s, event) ==
  LET rest == [s EXCEPT !.events = Tail(s.events)]
  IN  CASE event = "chunk" ->
             LET accumulatedText == s.accumulatedText \o <<"a">>
             IN  [rest EXCEPT !.accumulatedText = accumulatedText,
                              !.log = Append(@, Callback("onChunk", accumulatedText, NoSid))]
        [] event = "session" -> [rest EXCEPT !.sessionId = ServerSid(1)]
        [] event = "complete" ->
             [rest EXCEPT !.phase = "returned",
                          !.log = Append(@, Callback("onComplete", s.accumulatedText,
                                                     s.sessionId))]
        [] OTHER -> rest

\* one await reader.read() of sendMessageStreamReal and what follows it
sendMessageStreamReal_Read(s) ==
  IF s.events = <<>>
  THEN [s EXCEPT !.phase = "returned",
                 !.log = Append(@, Callback("onComplete", s.accumulatedText, s.sessionId))]
  ELSE IF Head(s.events) = "readfail"
  THEN [s EXCEPT !.phase = "simulated", !.events = <<>>]
  ELSE handleSseData(s, Head(s.events))

\* sendMessageStreamSimulated up to the start of its loop
sendMessageStreamSimulated_Start(s, out) ==
  IF ~out.ok
  THEN [s EXCEPT !.phase = "returned",
                 !.log = Append(@, Callback("onError", <<out.error>>, NoSid))]
  ELSE [s EXCEPT !.phase = "reveal", !.accumulatedText = <<>>,
                 !.fullResponse = out.fullResponse, !.sessionId = out.sessionId,
                 !.chunks = splitIntoNaturalChunks(out.fullResponse)]

\* one turn of the loop of sendMessageStreamSimulated, or the onComplete after it
sendMessageStreamSimulated_Turn(s) ==
  IF s.chunks # <<>>
  THEN LET accumulatedText == s.accumulatedText \o Head(s.chunks)
       IN  [s EXCEPT !.accumulatedText = accumulatedText, !.chunks = Tail(s.chunks),
                     !.log = Append(@, Callback("onChunk", accumulatedText, NoSid))]
  ELSE [s EXCEPT !.phase = "returned",
                 !.log = Append(@, Callback("onComplete", s.fullResponse, s.sessionId))]

InitSse ==
  /\ st = HookState(<<>>, FALSE, NoError, NoSid, DefaultTitle)
  /\ view = st
  /\ hasInitialized = FALSE
  /\ reqs = <<>>
  /\ loads = <<>>
  /\ store = {OldConversation}
  /\ now = 4
  /\ SideIdle
  /\ probe \in {[fn |-> "sendMessageStream",
                 arg |-> [useRealStreaming |-> real, fetch |-> fetch, events |-> events],
                 done |-> FALSE,
                 result |-> StreamState("called", events, <<>>, <<>>, <<>>, OldSid, <<>>)] :
                  real \in BOOLEAN, fetch \in FetchOutcomes,
                  events \in UNION {SseScripts(n) : n \in 0..MaxEvents}}

\* sendMessageStream: if (useRealStreaming) ... else ...
SseDispatch ==
  /\ probe.fn = "sendMessageStream"
  /\ probe.result.phase = "called"
  /\ probe' = [probe EXCEPT !.result.phase =
                 IF probe.arg.useRealStreaming THEN "fetch" ELSE "simulated"]
  /\ UNCHANGED hookVars

\* the fetch of sendMessageStreamReal settles
SseFetch ==
  /\ probe.fn = "sendMessageStream"
  /\ probe.result.phase = "fetch"
  /\ probe' = [probe EXCEPT !.result.phase =
                 IF probe.arg.fetch = "ok" THEN "read" ELSE "simulated"]
  /\ UNCHANGED hookVars

SseRead ==
  /\ probe.fn = "sendMessageStream"
  /\ probe.result.phase = "read"
  /\ probe' = [probe EXCEPT !.result = sendMessageStreamReal_Read(probe.result)]
  /\ UNCHANGED hookVars

\* the sendMessage of the simulated stream settles
SseSimulatedStart ==
  /\ probe.fn = "sendMessageStream"
  /\ probe.result.phase = "simulated"
  /\ \E reply \in GatewayReplies :
       probe' = [probe EXCEPT !.result =
                   sendMessageStreamSimulated_Start(probe.result,
                     StreamOutcome(reply, OldSid, generateSessionId(now, 1)))]
  /\ UNCHANGED hookVars

SseSimulatedTurn ==
  /\ probe.fn = "sendMessageStream"
  /\ probe.result.phase = "reveal"
  /\ probe' = [probe EXCEPT !.result = sendMessageStreamSimulated_Turn(probe.result)]
  /\ UNCHANGED hookVars

\* the promise of sendMessageStream resolves
SseReturn ==
  /\ probe.fn = "sendMessageStream"
  /\ probe.result.phase = "returned"
  /\ ~probe.done
  /\ probe' = [probe EXCEPT !.done = TRUE]
  /\ UNCHANGED hookVars

NextSse ==
  \/ SseDispatch
  \/ SseFetch
  \/ SseRead
  \/ SseSimulatedStart
  \/ SseSimulatedTurn
  \/ SseReturn

SpecSse == InitSse /\ [][NextSse]_vars

IsTerminalCallback(c) == c.fn \in {"onComplete", "onError"}

\* C30: for every call of sendMessageStream exactly one of onComplete and
\* onError is invoked, exactly once, and no onChunk is invoked after it; on
\* the simulated path and on the real-streaming path, its fallback to the
\* simulated path and a server-sent 'error' event included.
C30_OneTerminalCallback ==
  LET log == probe.result.log
  IN  /\ \A k \in 1..Len(log) : IsTerminalCallback(log[k]) => k = Len(log)
      /\ probe.result.phase = "returned" <=>
           (Len(log) > 0 /\ IsTerminalCallback(log[Len(log)]))
      /\ probe.done \/ ENABLED NextSse

\* a real stream that delivered a chunk, met an 'error' event, failed on a
\* read, fell back to the simulated stream and completed there
C30_Witness ==
  /\ probe.done
  /\ probe.arg.useRealStreaming
  /\ probe.arg.events = <<"chunk", "error", "readfail">>
  /\ Len(probe.result.log) >= 3
  /\ probe.result.log[Len(probe.result.log)].fn = "onComplete"

=============================================================================
